---- MODULE Spec2Model ----
(***************************************************************************)
(* Document comparison (2m24/Compare).                                     *)
(*                                                                         *)
(* Two variants of compareHtmlDocuments live in the repository:            *)
(*   mutual mode      src/unnamed/part_000   (createMutualDiff)            *)
(*   target-only mode src/src/App.jsx        (createModifiedDocument-      *)
(*                                            Highlights)                  *)
(* A run parses the two documents into segment sequences, walks them with  *)
(* two cursors, one loop iteration per step, and then computes the summary.*)
(*                                                                         *)
(* A document is modelled by its elements in document (tree) order, each   *)
(* a flat element <tag>text</tag> without attributes; a falsy html input   *)
(* (null, undefined or "") is modelled by its kind.                        *)
(* Cursors are 0-based as in the source; TLA+ sequences are 1-based, so    *)
(* segments[i] of the source is segments[i + 1] here.                      *)
(***************************************************************************)
EXTENDS Integers, Sequences, FiniteSets, TLC

VARIABLES
    mode,                \* "mutual" (part_000) or "target" (App.jsx)
    leftHtml, rightHtml, \* the two inputs of compareHtmlDocuments
    pc,                  \* "parse", "align", "done", "failed"
    leftSegments, rightSegments,
    leftIndex, rightIndex,
    leftResult, rightResult,   \* createMutualDiff's outputs
    highlightedSegments,       \* createModifiedDocumentHighlights' output
    summary,
    detailed,                  \* generateDetailedReport's output
    returned,                  \* what the caller's promise settles with
    leftDocument, rightDocument, \* App: useState(null), the uploaded documents
    comparison,                \* App: useState(null)
    viewMode,                  \* App: useState("preview")
    isComparing,               \* App: useState(false)
    microtasks,                \* App: promise reactions waiting to run
    lastHandler,               \* App: the handler or reaction that ran last
    previews,                  \* DocumentPreview: the props of the two instances
    listeners,                 \* DocumentPreview: the scroll listener of each container
    contentStyle,              \* DocumentPreview: inline style of each content div
    isSyncing,                 \* DocumentPreview: let isSyncing of each effect
    scrollEvents,              \* scroll events that answer a scrollTop assignment
    animationFrames,           \* requestAnimationFrame callbacks yet to run
    lastWrite,                 \* the last targetContainer.scrollTop assignment
    lastScroll                 \* the last scroll event that was dispatched

appVars == <<leftDocument, rightDocument, comparison, viewMode, isComparing,
             microtasks, lastHandler>>

vars == <<mode, leftHtml, rightHtml, pc, leftSegments, rightSegments,
          leftIndex, rightIndex, leftResult, rightResult,
          highlightedSegments, summary, detailed, returned,
          leftDocument, rightDocument, comparison, viewMode, isComparing,
          microtasks, lastHandler,
          previews, listeners, contentStyle, isSyncing, scrollEvents,
          animationFrames, lastWrite, lastScroll>>

previewVars == <<previews, listeners, contentStyle, isSyncing, scrollEvents,
                 animationFrames, lastWrite, lastScroll>>

coreVars == <<mode, leftHtml, rightHtml, pc, leftSegments, rightSegments,
              leftIndex, rightIndex, leftResult, rightResult,
              highlightedSegments, summary, detailed, returned>>

\* null of JavaScript.
Null == [kind |-> "null"]

\* The App component when it is mounted: the initial values of its useState
\* calls, no promise reaction waiting.
AppInit ==
    /\ leftDocument = Null
    /\ rightDocument = Null
    /\ comparison = Null
    /\ viewMode = "preview"
    /\ isComparing = FALSE
    /\ microtasks = <<>>
    /\ lastHandler = <<"mount", "App">>

\* undefined of JavaScript.
Undefined == [kind |-> "undefined"]

\* The containerId prop when it is not passed: !containerId holds.
NoContainerId == "undefined"

\* What getElementById returns when no element has the id.
NoElement == "null"

\* The two places the App renders a DocumentPreview in: the original
\* document on the left, the modified document on the right.
Sides == {"left", "right"}

\* No DocumentPreview is rendered in the place.
NotMounted ==
    [mounted |-> FALSE, containerId |-> NoContainerId,
     isModifiedWithHighlights |-> FALSE, content |-> ""]

\* The style prop of the content div: width '100%'; transform,
\* transformOrigin, minWidth, maxWidth and height are not set inline.
InitialStyle ==
    [transform |-> [fn |-> "", by |-> [num |-> 0, den |-> 1]],
     transformOrigin |-> "",
     width |-> [unit |-> "%", value |-> [num |-> 100, den |-> 1]],
     minWidth |-> "",
     maxWidth |-> "",
     height |-> [unit |-> "", value |-> 0]]

\* No DocumentPreview is mounted: no container, no listener, nothing queued.
PreviewInit ==
    /\ previews = [side \in Sides |-> NotMounted]
    /\ listeners = [side \in Sides |-> "none"]
    /\ contentStyle = [side \in Sides |-> InitialStyle]
    /\ isSyncing = [side \in Sides |-> FALSE]
    /\ scrollEvents = [side \in Sides |-> "none"]
    /\ animationFrames = {}
    /\ lastWrite = Undefined
    /\ lastScroll = Undefined

\* ------------------------------------------------------------------ bounds
MaxLen == 3

\* ------------------------------------------------------------------ inputs
Node(tag, txt) == [tagName |-> tag, text |-> txt]

Nodes == { Node("p", "A"), Node("p", "B"), Node("h1", "A"), Node("li", "A") }

NodeSeqs == UNION { [1..n -> Nodes] : n \in 0..MaxLen }

Htmls == { [kind |-> "null", nodes |-> <<>>], [kind |-> "empty", nodes |-> <<>>] }
         \cup { [kind |-> "doc", nodes |-> s] : s \in NodeSeqs }

\* !html of JavaScript: null, undefined and "" are falsy
Falsy(html) == html.kind \in {"null", "empty"}

Last(s) == s[Len(s)]

\* ------------------------------------------------------- shared helpers
\* --------------------------------------- mutual mode: parseHtmlIntoSegments
BlockTags == {"p", "h1", "h2", "h3", "h4", "h5", "h6", "li", "td", "th",
              "div", "blockquote", "pre"}

MediaTags == {"img", "table", "hr"}

\* element.alt || element.title || `[${tagName}]` of an element that has
\* neither attribute
MediaText(tag) ==
    CASE tag = "img" -> "[img]"
      [] tag = "table" -> "[table]"
      [] OTHER -> "[hr]"

\* The character U+00A0, no-break space.
NoBreakSpace == "\\u00a0"

\* The characters of the texts and tag names that occur in the documents.
Chars(str) ==
    CASE str = "" -> <<>>
      [] str = "a\\u00a0b" -> <<"a", NoBreakSpace, "b">>
      [] str = "A" -> <<"A">>
      [] str = "B" -> <<"B">>
      [] str = "h" -> <<"h">>
      [] str = "i" -> <<"i">>
      [] str = "a & b" -> <<"a", " ", "&", " ", "b">>
      [] str = "[img]" -> <<"[", "i", "m", "g", "]">>
      [] str = "[table]" -> <<"[", "t", "a", "b", "l", "e", "]">>
      [] str = "[hr]" -> <<"[", "h", "r", "]">>
      [] str = "p" -> <<"p">>
      [] str = "h1" -> <<"h", "1">>
      [] str = "h2" -> <<"h", "2">>
      [] str = "h3" -> <<"h", "3">>
      [] str = "h4" -> <<"h", "4">>
      [] str = "h5" -> <<"h", "5">>
      [] str = "h6" -> <<"h", "6">>
      [] str = "li" -> <<"l", "i">>
      [] str = "td" -> <<"t", "d">>
      [] str = "th" -> <<"t", "h">>
      [] str = "tr" -> <<"t", "r">>
      [] str = "div" -> <<"d", "i", "v">>
      [] str = "pre" -> <<"p", "r", "e">>
      [] str = "span" -> <<"s", "p", "a", "n">>
      [] str = "blockquote" -> <<"b", "l", "o", "c", "k", "q", "u", "o", "t", "e">>
      [] str = "img" -> <<"i", "m", "g">>
      [] str = "table" -> <<"t", "a", "b", "l", "e">>
      [] str = "hr" -> <<"h", "r">>

\* Text as the HTML serialiser writes it into outerHTML: &, no-break space,
\* < and > are escaped.
RECURSIVE EscapeText(_)
EscapeText(chars) ==
    IF chars = <<>> THEN <<>>
    ELSE (CASE Head(chars) = "&" -> <<"&", "a", "m", "p", ";">>
            [] Head(chars) = NoBreakSpace -> <<"&", "n", "b", "s", "p", ";">>
            [] Head(chars) = "<" -> <<"&", "l", "t", ";">>
            [] Head(chars) = ">" -> <<"&", "g", "t", ";">>
            [] OTHER -> <<Head(chars)>>)
         \o EscapeText(Tail(chars))

\* Elements the serialiser writes without an end tag.
VoidTags == {"img", "hr"}

\* element.outerHTML of a flat element without attributes.
outerHTML(tag, text) ==
    IF tag \in VoidTags
    THEN <<"<">> \o Chars(tag) \o <<">">>
    ELSE <<"<">> \o Chars(tag) \o <<">">> \o EscapeText(Chars(text))
         \o <<"<", "/">> \o Chars(tag) \o <<">">>

\* String.prototype.indexOf: the 0-based position of the first occurrence
\* of needle in hay, -1 if there is none.
indexOf(hay, needle) ==
    LET starts == { i \in 0..(Len(hay) - Len(needle)) :
                      SubSeq(hay, i + 1, i + Len(needle)) = needle }
    IN  IF starts = {} THEN -1
        ELSE CHOOSE i \in starts : \A j \in starts : i <= j

\* a.html.indexOf(a.text) of every element that can become a segment: the
\* text is searched in the whole markup, opening tag included.
TextPosOf ==
    [tag \in BlockTags \cup MediaTags |->
       [text \in {"A", "B", "h", "i", "p", "a & b", "a\\u00a0b", "[img]", "[table]", "[hr]"} |->
          indexOf(outerHTML(tag, IF tag \in MediaTags THEN "" ELSE text), Chars(text))]]

\* a.html.indexOf(a.text)
TextPos(segment) == TextPosOf[segment.tagName][segment.text]

\* Array.prototype.sort is stable: an element ends up after every element
\* with a smaller key and after the earlier elements with an equal key.
SortByTextPos(segments) ==
    LET n == Len(segments)
        Place(i) == Cardinality({ j \in 1..n :
                        \/ TextPos(segments[j]) < TextPos(segments[i])
                        \/ TextPos(segments[j]) = TextPos(segments[i]) /\ j <= i })
    IN  [ k \in 1..n |-> segments[CHOOSE i \in 1..n : Place(i) = k] ]

parseHtmlIntoSegmentsMutual(html) ==
    IF Falsy(html) THEN <<>>
    ELSE
      LET blockElements == SelectSeq(html.nodes, LAMBDA e : e.tagName \in BlockTags)
          blocks == [ k \in 1..Len(blockElements) |->
                        [id |-> k - 1,
                         tagName |-> blockElements[k].tagName,
                         text |-> blockElements[k].text,
                         isMedia |-> FALSE] ]
          mediaElements == SelectSeq(html.nodes, LAMBDA e : e.tagName \in MediaTags)
          media == [ k \in 1..Len(mediaElements) |->
                        [id |-> <<"media", k - 1>>,
                         tagName |-> mediaElements[k].tagName,
                         text |-> MediaText(mediaElements[k].tagName),
                         isMedia |-> TRUE] ]
      IN  SortByTextPos(SelectSeq(blocks, LAMBDA s : s.text # "") \o media)

\* ---------------------------------- target-only mode: parseHtmlIntoSegments
AcceptedTags == {"p", "h1", "h2", "h3", "h4", "h5", "h6", "li", "td", "th",
                 "div", "blockquote", "pre", "img", "table", "tr"}

KeptWhenEmpty == {"img", "table", "tr"}

\* Mutant: the check that skips empty elements is missing.
parseHtmlIntoSegmentsTargetKeepEmpty(html) ==
    IF Falsy(html) THEN <<>>
    ELSE
      LET emitted == SelectSeq(html.nodes, LAMBDA e : e.tagName \in AcceptedTags)
      IN  [ k \in 1..Len(emitted) |->
              [id |-> k - 1,
               tagName |-> emitted[k].tagName,
               text |-> emitted[k].text] ]

parseHtmlIntoSegmentsTarget(html) ==
    IF Falsy(html) THEN <<>>
    ELSE
      LET emitted == SelectSeq(html.nodes,
                        LAMBDA e : /\ e.tagName \in AcceptedTags
                                   /\ (e.text # "" \/ e.tagName \in KeptWhenEmpty))
      IN  [ k \in 1..Len(emitted) |->
              [id |-> k - 1,
               tagName |-> emitted[k].tagName,
               text |-> emitted[k].text] ]

\* ------------------------------------------------ mutual mode: alignment
\* { ...segment, operation, changeType }; an unchanged entry has no
\* changeType property ("undefined").
Annotated(segment, op, change) ==
    [id |-> segment.id, tagName |-> segment.tagName, text |-> segment.text,
     isMedia |-> segment.isMedia, operation |-> op, changeType |-> change]

createPlaceholder(type, originalSegment) ==
    [id |-> <<"placeholder", originalSegment.id>>,
     tagName |-> originalSegment.tagName,
     text |-> "",
     isMedia |-> FALSE,
     operation |-> "placeholder",
     changeType |-> IF type = "added" THEN "placeholder_added" ELSE "placeholder_removed",
     placeholderFor |-> type,
     originalSegment |-> originalSegment]

\* for (let i = startIndex; i < segments.length; i++) ... return i - startIndex
RECURSIVE findMatchingFrom(_, _, _, _)
findMatchingFrom(segment, segments, startIndex, i) ==
    IF i >= Len(segments) THEN -1
    ELSE IF /\ segments[i + 1].text = segment.text
            /\ segments[i + 1].tagName = segment.tagName
         THEN i - startIndex
         ELSE findMatchingFrom(segment, segments, startIndex, i + 1)

\* Mutant: the scan starts one position too late.
findMatchingSegmentLate(segment, segments, startIndex) ==
    findMatchingFrom(segment, segments, startIndex, startIndex + 1)

findMatchingSegment(segment, segments, startIndex) ==
    findMatchingFrom(segment, segments, startIndex, startIndex)

\* Mutant: the tagName test is negated.
IdenticalSegmentsOtherTag(leftSegment, rightSegment) ==
    leftSegment.text = rightSegment.text /\ leftSegment.tagName # rightSegment.tagName

\* leftSegment.text === rightSegment.text && leftSegment.tagName === rightSegment.tagName
IdenticalSegments(leftSegment, rightSegment) ==
    leftSegment.text = rightSegment.text /\ leftSegment.tagName = rightSegment.tagName

\* Mutant: <= in place of <, so equal offsets make the right segment added.
LookaheadDecisionTieAdded(rightMatch, leftMatch) ==
    IF rightMatch # -1 /\ (leftMatch = -1 \/ rightMatch <= leftMatch) THEN "added"
    ELSE IF leftMatch # -1 THEN "removed"
    ELSE "replacement"

\* The three-way decision of the lookahead branch.
LookaheadDecision(rightMatch, leftMatch) ==
    IF rightMatch # -1 /\ (leftMatch = -1 \/ rightMatch < leftMatch) THEN "added"
    ELSE IF leftMatch # -1 THEN "removed"
    ELSE "replacement"

\* Mutant: no same-tagName rule, every differing pair goes to the lookahead.
MutualBranchLookaheadOnly(lSegs, rSegs, lIdx, rIdx) ==
    IF lIdx >= Len(lSegs) THEN "leftExhausted"
    ELSE IF rIdx >= Len(rSegs) THEN "rightExhausted"
    ELSE LET leftSegment == lSegs[lIdx + 1]
             rightSegment == rSegs[rIdx + 1]
         IN  IF IdenticalSegments(leftSegment, rightSegment) THEN "unchanged"
             ELSE LookaheadDecision(
                      findMatchingSegment(leftSegment, rSegs, rIdx + 1),
                      findMatchingSegment(rightSegment, lSegs, lIdx + 1))

\* Which branch of the loop body one iteration of createMutualDiff takes.
MutualBranch(lSegs, rSegs, lIdx, rIdx) ==
    IF lIdx >= Len(lSegs) THEN "leftExhausted"
    ELSE IF rIdx >= Len(rSegs) THEN "rightExhausted"
    ELSE LET leftSegment == lSegs[lIdx + 1]
             rightSegment == rSegs[rIdx + 1]
         IN  IF IdenticalSegments(leftSegment, rightSegment) THEN "unchanged"
             ELSE IF leftSegment.tagName = rightSegment.tagName THEN "modified"
             ELSE LookaheadDecision(
                      findMatchingSegment(leftSegment, rSegs, rIdx + 1),
                      findMatchingSegment(rightSegment, lSegs, lIdx + 1))

\* What each branch pushes to leftResult and rightResult and how far it
\* moves each cursor.
\* Mutant: the branch carries the labels of the deletion branch.
EmitLeftExhaustedAsRemoved(rightSegment) ==
    [left |-> <<createPlaceholder("removed", rightSegment)>>,
     right |-> <<Annotated(rightSegment, "removed", "structural_remove")>>,
     dl |-> 0, dr |-> 1]

EmitLeftExhausted(rightSegment) ==
    [left |-> <<createPlaceholder("added", rightSegment)>>,
     right |-> <<Annotated(rightSegment, "added", "structural_add")>>,
     dl |-> 0, dr |-> 1]

\* Mutant: the placeholder push on the right is missing.
EmitRightExhaustedNoPlaceholder(leftSegment) ==
    [left |-> <<Annotated(leftSegment, "removed", "structural_remove")>>,
     right |-> <<>>,
     dl |-> 1, dr |-> 0]

EmitRightExhausted(leftSegment) ==
    [left |-> <<Annotated(leftSegment, "removed", "structural_remove")>>,
     right |-> <<createPlaceholder("removed", leftSegment)>>,
     dl |-> 1, dr |-> 0]

EmitUnchanged(leftSegment, rightSegment) ==
    [left |-> <<Annotated(leftSegment, "unchanged", "undefined")>>,
     right |-> <<Annotated(rightSegment, "unchanged", "undefined")>>,
     dl |-> 1, dr |-> 1]

EmitModified(leftSegment, rightSegment) ==
    [left |-> <<Annotated(leftSegment, "modified", "content_change")>>,
     right |-> <<Annotated(rightSegment, "modified", "content_change")>>,
     dl |-> 1, dr |-> 1]

\* Mutant: the right cursor is not advanced after an added segment.
EmitAddedNoAdvance(rightSegment) ==
    [left |-> <<createPlaceholder("added", rightSegment)>>,
     right |-> <<Annotated(rightSegment, "added", "structural_add")>>,
     dl |-> 0, dr |-> 0]

EmitAdded(rightSegment) ==
    [left |-> <<createPlaceholder("added", rightSegment)>>,
     right |-> <<Annotated(rightSegment, "added", "structural_add")>>,
     dl |-> 0, dr |-> 1]

\* Mutant: the two pushes go to the wrong sides.
EmitRemovedSwapped(leftSegment) ==
    [left |-> <<createPlaceholder("removed", leftSegment)>>,
     right |-> <<Annotated(leftSegment, "removed", "structural_remove")>>,
     dl |-> 1, dr |-> 0]

EmitRemoved(leftSegment) ==
    [left |-> <<Annotated(leftSegment, "removed", "structural_remove")>>,
     right |-> <<createPlaceholder("removed", leftSegment)>>,
     dl |-> 1, dr |-> 0]

\* Mutant: the replaced left segment is consumed but a placeholder is pushed
\* in its place.
EmitReplacementDropsLeft(leftSegment, rightSegment) ==
    [left |-> <<createPlaceholder("added", rightSegment)>>,
     right |-> <<Annotated(rightSegment, "added", "replacement")>>,
     dl |-> 1, dr |-> 1]

EmitReplacement(leftSegment, rightSegment) ==
    [left |-> <<Annotated(leftSegment, "removed", "replacement")>>,
     right |-> <<Annotated(rightSegment, "added", "replacement")>>,
     dl |-> 1, dr |-> 1]

\* One iteration of the while loop of createMutualDiff.
MutualIteration(lSegs, rSegs, lIdx, rIdx) ==
    LET branch == MutualBranch(lSegs, rSegs, lIdx, rIdx)
    IN  CASE branch = "leftExhausted"  -> EmitLeftExhausted(rSegs[rIdx + 1])
          [] branch = "rightExhausted" -> EmitRightExhausted(lSegs[lIdx + 1])
          [] branch = "unchanged"      -> EmitUnchanged(lSegs[lIdx + 1], rSegs[rIdx + 1])
          [] branch = "modified"       -> EmitModified(lSegs[lIdx + 1], rSegs[rIdx + 1])
          [] branch = "added"          -> EmitAdded(rSegs[rIdx + 1])
          [] branch = "removed"        -> EmitRemoved(lSegs[lIdx + 1])
          [] branch = "replacement"    -> EmitReplacement(lSegs[lIdx + 1], rSegs[rIdx + 1])

CountOp(result, op) ==
    Cardinality({ i \in 1..Len(result) : result[i].operation = op })

\* Mutant: additions are tallied over leftResult.
calculateMutualSummaryLeftSide(lResult, rResult) ==
    LET additions == CountOp(lResult, "added")
        modifications == CountOp(rResult, "modified")
        deletions == CountOp(lResult, "removed")
    IN  [additions |-> additions, deletions |-> deletions,
         modifications |-> modifications,
         changes |-> additions + deletions + modifications]

\* Mutant: deletions are tallied over rightResult.
calculateMutualSummaryDeletionsRight(lResult, rResult) ==
    LET additions == CountOp(rResult, "added")
        modifications == CountOp(rResult, "modified")
        deletions == CountOp(rResult, "removed")
    IN  [additions |-> additions, deletions |-> deletions,
         modifications |-> modifications,
         changes |-> additions + deletions + modifications]

\* Mutant: the removed half of a replacement pair is left out of the tally.
calculateMutualSummaryPairOnce(lResult, rResult) ==
    LET additions == CountOp(rResult, "added")
        modifications == CountOp(rResult, "modified")
        deletions == Cardinality({ i \in 1..Len(lResult) :
                                     /\ lResult[i].operation = "removed"
                                     /\ lResult[i].changeType # "replacement" })
    IN  [additions |-> additions, deletions |-> deletions,
         modifications |-> modifications,
         changes |-> additions + deletions + modifications]

\* Mutant: modified segments are tallied on both sides.
calculateMutualSummaryBothSides(lResult, rResult) ==
    LET additions == CountOp(rResult, "added")
        modifications == CountOp(rResult, "modified") + CountOp(lResult, "modified")
        deletions == CountOp(lResult, "removed")
    IN  [additions |-> additions, deletions |-> deletions,
         modifications |-> modifications,
         changes |-> additions + deletions + modifications]

calculateMutualSummary(lResult, rResult) ==
    LET additions == CountOp(rResult, "added")
        modifications == CountOp(rResult, "modified")
        deletions == CountOp(lResult, "removed")
    IN  [additions |-> additions, deletions |-> deletions,
         modifications |-> modifications,
         changes |-> additions + deletions + modifications]

\* ------------------------------------------- target-only mode: alignment
\* for (let i = startIndex; i < segments.length; i++) ... return i
RECURSIVE findSegmentFrom(_, _, _)
findSegmentFrom(segment, segments, i) ==
    IF i >= Len(segments) THEN -1
    ELSE IF /\ segments[i + 1].text = segment.text
            /\ segments[i + 1].tagName = segment.tagName
         THEN i
         ELSE findSegmentFrom(segment, segments, i + 1)

findSegmentInArray(segment, segments, startIndex) ==
    findSegmentFrom(segment, segments, startIndex)

\* Mutant: an added segment is stored with the label of a removed one.
createHighlightedSegmentAsRemoved(segment, changeType) ==
    [id |-> segment.id, tagName |-> segment.tagName, text |-> segment.text,
     changeType |-> IF changeType = "added" THEN "removed" ELSE changeType]

\* { ...segment, changeType, highlightedHtml, originalHtml }
createHighlightedSegment(segment, changeType) ==
    [id |-> segment.id, tagName |-> segment.tagName, text |-> segment.text,
     changeType |-> changeType]

\* rightSegment.text === leftSegment.text && rightSegment.tagName === leftSegment.tagName
SameSegment(rightSegment, leftSegment) ==
    rightSegment.text = leftSegment.text /\ rightSegment.tagName = leftSegment.tagName

\* The decision of the else branch: foundInLeft is looked up first, and
\* leftInRight only when foundInLeft is -1.
TargetLookahead(lSegs, rSegs, lIdx, rIdx) ==
    LET foundInLeft == findSegmentInArray(rSegs[rIdx + 1], lSegs, lIdx + 1)
        leftInRight == findSegmentInArray(lSegs[lIdx + 1], rSegs, rIdx + 1)
    IN  IF foundInLeft = -1
        THEN IF leftInRight # -1 THEN "leftLater" ELSE "modified"
        ELSE "foundInLeft"

\* Which branch of the loop body one iteration of
\* createModifiedDocumentHighlights takes.
TargetBranch(lSegs, rSegs, lIdx, rIdx) ==
    IF lIdx >= Len(lSegs) THEN "leftExhausted"
    ELSE IF SameSegment(rSegs[rIdx + 1], lSegs[lIdx + 1]) THEN "identical"
    ELSE TargetLookahead(lSegs, rSegs, lIdx, rIdx)

\* One iteration of the while loop of createModifiedDocumentHighlights.
TargetIteration(lSegs, rSegs, lIdx, rIdx) ==
    LET branch == TargetBranch(lSegs, rSegs, lIdx, rIdx)
        rightSegment == rSegs[rIdx + 1]
    IN  CASE branch = "leftExhausted" ->
               [out |-> createHighlightedSegment(rightSegment, "added"), dl |-> 0, dr |-> 1]
          [] branch = "identical" ->
               [out |-> createHighlightedSegment(rightSegment, "unchanged"), dl |-> 1, dr |-> 1]
          [] branch = "leftLater" ->
               [out |-> createHighlightedSegment(rightSegment, "added"), dl |-> 0, dr |-> 1]
          [] branch = "modified" ->
               [out |-> createHighlightedSegment(rightSegment, "modified"), dl |-> 1, dr |-> 1]
          [] branch = "foundInLeft" ->
               [out |-> createHighlightedSegment(rightSegment, "unchanged"), dl |-> 1, dr |-> 1]

CountChange(segments, change) ==
    Cardinality({ i \in 1..Len(segments) : segments[i].changeType = change })

\* Mutant: the total leaves the modifications out.
calculateSummaryNoModifications(segments) ==
    LET additions == CountChange(segments, "added")
        deletions == CountChange(segments, "removed")
        modifications == CountChange(segments, "modified")
    IN  [additions |-> additions, deletions |-> deletions,
         modifications |-> modifications,
         changes |-> additions + deletions]

calculateSummary(segments) ==
    LET additions == CountChange(segments, "added")
        deletions == CountChange(segments, "removed")
        modifications == CountChange(segments, "modified")
    IN  [additions |-> additions, deletions |-> deletions,
         modifications |-> modifications,
         changes |-> additions + deletions + modifications]

\* ------------------------------- mutual mode: highlighting and the report
\* Each highlighted entry keeps type (segment.operation || 'unchanged'),
\* changeType (segment.changeType || 'none') and tagName.
generateMutualHighlighting(segments) ==
    [ i \in 1..Len(segments) |->
        [type |-> segments[i].operation,
         changeType |-> IF segments[i].changeType = "undefined" THEN "none"
                        ELSE segments[i].changeType,
         tagName |-> segments[i].tagName] ]

\* The status of one report line: the if / else-if chain over the two
\* operations, starting from 'UNCHANGED'.
ReportStatus(leftSeg, rightSeg) ==
    IF leftSeg.operation = "removed" /\ rightSeg.operation = "placeholder" THEN "REMOVED"
    ELSE IF leftSeg.operation = "placeholder" /\ rightSeg.operation = "added" THEN "ADDED"
    ELSE IF leftSeg.operation = "modified" /\ rightSeg.operation = "modified" THEN "MODIFIED"
    ELSE "UNCHANGED"

\* isTableCell is set by the parser on td and th elements and is absent on
\* placeholders.
IsTableCell(seg) == seg.operation # "placeholder" /\ seg.tagName \in {"td", "th"}

generateDetailedReport(lResult, rResult) ==
    LET paired == { i \in 1..Len(lResult) : i <= Len(rResult) }
        Line(i) == [v1 |-> i, v2 |-> i,
                    status |-> ReportStatus(lResult[i], rResult[i])]
        Index(S, i) == Cardinality({ j \in S : j <= i })
        Pick(S) == [ k \in 1..Cardinality(S) |-> CHOOSE i \in S : Index(S, i) = k ]
        cells == { i \in paired : IsTableCell(lResult[i]) \/ IsTableCell(rResult[i]) }
        media == { i \in paired : lResult[i].isMedia \/ rResult[i].isMedia }
    IN  [lines |-> [ k \in 1..Cardinality(paired) |-> Line(Pick(paired)[k]) ],
         tables |-> [ k \in 1..Cardinality(cells) |->
                        [status |-> Line(Pick(cells)[k]).status,
                         table |-> 1,
                         row |-> ((Pick(cells)[k] - 1) \div 3) + 1,
                         col |-> ((Pick(cells)[k] - 1) % 3) + 1] ],
         images |-> [ k \in 1..Cardinality(media) |->
                        [status |-> Line(Pick(media)[k]).status,
                         index |-> Pick(media)[k]] ]]

\* ------------------------------------------------------------ the machine
NoReport == [lines |-> <<>>, tables |-> <<>>, images |-> <<>>]

\* The promise of compareHtmlDocuments before it settles.
Pending == [kind |-> "pending"]

InitialStats == [additions |-> 0, deletions |-> 0, modifications |-> 0, changes |-> 0]

Init ==
    /\ mode \in {"mutual", "target"}
    /\ leftHtml \in Htmls
    /\ rightHtml \in Htmls
    /\ pc = "parse"
    /\ leftSegments = <<>>
    /\ rightSegments = <<>>
    /\ leftIndex = 0
    /\ rightIndex = 0
    /\ leftResult = <<>>
    /\ rightResult = <<>>
    /\ highlightedSegments = <<>>
    /\ summary = InitialStats
    /\ detailed = NoReport
    /\ returned = Pending
    /\ AppInit
    /\ PreviewInit

\* compareHtmlDocuments: both documents are parsed, then the aligner starts
\* with both cursors at 0 and empty results.
ParseDocuments ==
    /\ pc = "parse"
    /\ leftSegments' = IF mode = "mutual" THEN parseHtmlIntoSegmentsMutual(leftHtml)
                       ELSE parseHtmlIntoSegmentsTarget(leftHtml)
    /\ rightSegments' = IF mode = "mutual" THEN parseHtmlIntoSegmentsMutual(rightHtml)
                        ELSE parseHtmlIntoSegmentsTarget(rightHtml)
    /\ pc' = "align"
    /\ UNCHANGED <<mode, leftHtml, rightHtml, leftIndex, rightIndex, leftResult,
                   rightResult, highlightedSegments, summary, detailed, returned>>
    /\ UNCHANGED <<appVars, previewVars>>

\* Mutant: the annotation is written into the consumed left segment itself
\* (leftSegment.operation = ...) before it is pushed.
MutualStepInPlace ==
    /\ pc = "align"
    /\ mode = "mutual"
    /\ leftIndex < Len(leftSegments) \/ rightIndex < Len(rightSegments)
    /\ LET e == MutualIteration(leftSegments, rightSegments, leftIndex, rightIndex)
       IN  /\ leftResult' = leftResult \o e.left
           /\ rightResult' = rightResult \o e.right
           /\ leftIndex' = leftIndex + e.dl
           /\ rightIndex' = rightIndex + e.dr
           /\ leftSegments' = IF e.dl = 1
                              THEN [leftSegments EXCEPT ![leftIndex + 1] = e.left[1]]
                              ELSE leftSegments
    /\ UNCHANGED <<mode, leftHtml, rightHtml, pc, rightSegments,
                   highlightedSegments, summary, detailed, returned>>
    /\ UNCHANGED <<appVars, previewVars>>

\* while (leftIndex < leftSegments.length || rightIndex < rightSegments.length)
MutualStep ==
    /\ pc = "align"
    /\ mode = "mutual"
    /\ leftIndex < Len(leftSegments) \/ rightIndex < Len(rightSegments)
    /\ LET e == MutualIteration(leftSegments, rightSegments, leftIndex, rightIndex)
       IN  /\ leftResult' = leftResult \o e.left
           /\ rightResult' = rightResult \o e.right
           /\ leftIndex' = leftIndex + e.dl
           /\ rightIndex' = rightIndex + e.dr
    /\ UNCHANGED <<mode, leftHtml, rightHtml, pc, leftSegments, rightSegments,
                   highlightedSegments, summary, detailed, returned>>
    /\ UNCHANGED <<appVars, previewVars>>

\* The loop has ended: createMutualDiff returns and the summary is computed.
MutualFinish ==
    /\ pc = "align"
    /\ mode = "mutual"
    /\ ~(leftIndex < Len(leftSegments) \/ rightIndex < Len(rightSegments))
    /\ summary' = calculateMutualSummary(leftResult, rightResult)
    /\ detailed' = generateDetailedReport(leftResult, rightResult)
    /\ returned' = [kind |-> "result",
                    leftDiffs |-> generateMutualHighlighting(leftResult),
                    rightDiffs |-> generateMutualHighlighting(rightResult),
                    summary |-> summary',
                    detailed |-> detailed']
    /\ pc' = "done"
    /\ UNCHANGED <<mode, leftHtml, rightHtml, leftSegments, rightSegments, leftIndex,
                   rightIndex, leftResult, rightResult, highlightedSegments>>
    /\ UNCHANGED <<appVars, previewVars>>

\* while (rightIndex < rightSegments.length)
TargetStep ==
    /\ pc = "align"
    /\ mode = "target"
    /\ rightIndex < Len(rightSegments)
    /\ LET e == TargetIteration(leftSegments, rightSegments, leftIndex, rightIndex)
       IN  /\ highlightedSegments' = Append(highlightedSegments, e.out)
           /\ leftIndex' = leftIndex + e.dl
           /\ rightIndex' = rightIndex + e.dr
    /\ UNCHANGED <<mode, leftHtml, rightHtml, pc, leftSegments, rightSegments,
                   leftResult, rightResult, summary, detailed, returned>>
    /\ UNCHANGED <<appVars, previewVars>>

\* The loop has ended: the highlighted segments are returned and summarised.
TargetFinish ==
    /\ pc = "align"
    /\ mode = "target"
    /\ ~(rightIndex < Len(rightSegments))
    /\ summary' = calculateSummary(highlightedSegments)
    /\ returned' = [kind |-> "result",
                    modifiedDocumentHighlighted |-> highlightedSegments,
                    summary |-> summary',
                    originalDocument |-> leftHtml,
                    modifiedDocument |-> rightHtml]
    /\ pc' = "done"
    /\ UNCHANGED <<mode, leftHtml, rightHtml, leftSegments, rightSegments, leftIndex,
                   rightIndex, leftResult, rightResult, highlightedSegments, detailed>>
    /\ UNCHANGED <<appVars, previewVars>>

Next ==
    \/ ParseDocuments
    \/ MutualStep
    \/ MutualFinish
    \/ TargetStep
    \/ TargetFinish

Spec == Init /\ [][Next]_vars

\* ------------------------------------------------ segmentation on its own
\* Documents for the segmenters alone: elements with and without text, the
\* media elements, a table row, an inline element no segmenter visits, a
\* heading whose text occurs in its own tag name and paragraphs whose text
\* is escaped in the markup.
MaxParseLen == 2

ParseNodes == { Node("p", "A"), Node("p", ""), Node("div", ""), Node("img", ""),
                Node("table", ""), Node("tr", ""), Node("hr", ""), Node("span", "A"),
                Node("h1", "h"), Node("p", "a & b"), Node("p", "a\\u00a0b") }

ParseHtmls == { [kind |-> "null", nodes |-> <<>>], [kind |-> "empty", nodes |-> <<>>] }
              \cup { [kind |-> "doc", nodes |-> s] :
                        s \in UNION { [1..n -> ParseNodes] : n \in 0..MaxParseLen } }

InitParse ==
    /\ mode \in {"mutual", "target"}
    /\ leftHtml \in ParseHtmls
    /\ rightHtml = [kind |-> "null", nodes |-> <<>>]
    /\ pc = "parse"
    /\ leftSegments = <<>>
    /\ rightSegments = <<>>
    /\ leftIndex = 0
    /\ rightIndex = 0
    /\ leftResult = <<>>
    /\ rightResult = <<>>
    /\ highlightedSegments = <<>>
    /\ summary = InitialStats
    /\ detailed = NoReport
    /\ returned = Pending
    /\ AppInit
    /\ PreviewInit

NextParse == ParseDocuments

SpecParse == InitParse /\ [][NextParse]_vars

\* ------------------------------------------------- one call, run to its end
\* Before the call: no arguments are bound and the promise does not exist.
NotCalled == [kind |-> "none", nodes |-> <<>>]

\* The documents of a single fair run: up to MaxRunLen elements.
MaxRunLen == 2

RunNodeSeqs == UNION { [1..n -> Nodes] : n \in 0..MaxRunLen }

RunHtmls == { [kind |-> "null", nodes |-> <<>>], [kind |-> "empty", nodes |-> <<>>] }
            \cup { [kind |-> "doc", nodes |-> s] : s \in RunNodeSeqs }

InitCall ==
    /\ mode = "none"
    /\ leftHtml = NotCalled
    /\ rightHtml = NotCalled
    /\ pc = "call"
    /\ leftSegments = <<>>
    /\ rightSegments = <<>>
    /\ leftIndex = 0
    /\ rightIndex = 0
    /\ leftResult = <<>>
    /\ rightResult = <<>>
    /\ highlightedSegments = <<>>
    /\ summary = InitialStats
    /\ detailed = NoReport
    /\ returned = Pending
    /\ AppInit
    /\ PreviewInit

\* compareHtmlDocuments(leftHtml, rightHtml) of either variant is called.
Call ==
    /\ pc = "call"
    /\ mode' \in {"mutual", "target"}
    /\ leftHtml' \in RunHtmls
    /\ rightHtml' \in RunHtmls
    /\ pc' = "parse"
    /\ UNCHANGED <<leftSegments, rightSegments, leftIndex, rightIndex, leftResult,
                   rightResult, highlightedSegments, summary, detailed, returned>>
    /\ UNCHANGED <<appVars, previewVars>>

NextCall ==
    \/ Call
    \/ ParseDocuments
    \/ MutualStep
    \/ MutualFinish
    \/ TargetStep
    \/ TargetFinish

\* The body of compareHtmlDocuments and its loops run synchronously to the
\* end once entered: a step that is enabled is eventually taken.
FairSpec == InitCall /\ [][NextCall]_vars /\ WF_vars(NextCall)

\* ------------------------------------------------ a call that can fail
\* error.message of whatever is thrown inside the try block.
Causes == {"DOMParser is not defined", "Cannot read properties of undefined"}

\* Mutant: the caught error is passed on without the wrapping message.
FailureUnwrapped(cause) == [kind |-> "error", message |-> <<cause>>]

\* throw new Error("Failed to compare documents: " + error.message)
Failure(cause) ==
    [kind |-> "error", message |-> <<"Failed to compare documents: ", cause>>]

\* Something inside the try block throws: during segmentation (pc = "parse")
\* or during alignment, highlighting, summary or report building
\* (pc = "align"). The catch block rejects the promise; the locals are never
\* handed to the caller.
Throw ==
    /\ pc \in {"parse", "align"}
    /\ \E cause \in Causes : returned' = Failure(cause)
    /\ pc' = "failed"
    /\ UNCHANGED <<mode, leftHtml, rightHtml, leftSegments, rightSegments, leftIndex,
                   rightIndex, leftResult, rightResult, highlightedSegments, summary,
                   detailed>>
    /\ UNCHANGED <<appVars, previewVars>>

NextFail ==
    \/ Call
    \/ ParseDocuments
    \/ MutualStep
    \/ MutualFinish
    \/ TargetStep
    \/ TargetFinish
    \/ Throw

SpecFail == InitCall /\ [][NextFail]_vars

\* ------------------------------------- both aligners on the same sequences
\* createMutualDiff as a whole: the loop run from both cursors at 0.
RECURSIVE MutualLoop(_, _, _, _, _, _)
MutualLoop(lSegs, rSegs, lIdx, rIdx, lRes, rRes) ==
    IF lIdx < Len(lSegs) \/ rIdx < Len(rSegs)
    THEN LET e == MutualIteration(lSegs, rSegs, lIdx, rIdx)
         IN  MutualLoop(lSegs, rSegs, lIdx + e.dl, rIdx + e.dr,
                        lRes \o e.left, rRes \o e.right)
    ELSE [leftResult |-> lRes, rightResult |-> rRes]

createMutualDiff(lSegs, rSegs) == MutualLoop(lSegs, rSegs, 0, 0, <<>>, <<>>)

\* createModifiedDocumentHighlights as a whole.
RECURSIVE TargetLoop(_, _, _, _, _)
TargetLoop(lSegs, rSegs, lIdx, rIdx, out) ==
    IF rIdx < Len(rSegs)
    THEN LET e == TargetIteration(lSegs, rSegs, lIdx, rIdx)
         IN  TargetLoop(lSegs, rSegs, lIdx + e.dl, rIdx + e.dr, Append(out, e.out))
    ELSE out

createModifiedDocumentHighlights(lSegs, rSegs) == TargetLoop(lSegs, rSegs, 0, 0, <<>>)

\* A segment sequence as either aligner receives it: ids in sequence order.
SegmentsOf(nodes) ==
    [ k \in 1..Len(nodes) |->
        [id |-> k - 1, tagName |-> nodes[k].tagName, text |-> nodes[k].text,
         isMedia |-> FALSE] ]

InitModes ==
    /\ mode = "both"
    /\ \E l \in NodeSeqs, r \in NodeSeqs :
         /\ leftHtml = [kind |-> "doc", nodes |-> l]
         /\ rightHtml = [kind |-> "doc", nodes |-> r]
         /\ leftSegments = SegmentsOf(l)
         /\ rightSegments = SegmentsOf(r)
    /\ pc = "align"
    /\ leftIndex = 0
    /\ rightIndex = 0
    /\ leftResult = <<>>
    /\ rightResult = <<>>
    /\ highlightedSegments = <<>>
    /\ summary = InitialStats
    /\ detailed = NoReport
    /\ returned = Pending
    /\ AppInit
    /\ PreviewInit

\* The two aligners are run on the same pair of segment sequences.
AlignBothModes ==
    /\ pc = "align"
    /\ mode = "both"
    /\ leftResult' = createMutualDiff(leftSegments, rightSegments).leftResult
    /\ rightResult' = createMutualDiff(leftSegments, rightSegments).rightResult
    /\ highlightedSegments' = createModifiedDocumentHighlights(leftSegments, rightSegments)
    /\ leftIndex' = Len(leftSegments)
    /\ rightIndex' = Len(rightSegments)
    /\ summary' = calculateMutualSummary(leftResult', rightResult')
    /\ pc' = "done"
    /\ UNCHANGED <<mode, leftHtml, rightHtml, leftSegments, rightSegments,
                   detailed, returned>>
    /\ UNCHANGED <<appVars, previewVars>>

NextModes == AlignBothModes

SpecModes == InitModes /\ [][NextModes]_vars

\* ------------------------------------------------------ the App component
\* compareHtmlDocuments of App.jsx as a whole, for html inputs it does not
\* fail on: the value its promise is fulfilled with.
compareHtmlDocuments(left, right) ==
    LET lSegs == parseHtmlIntoSegmentsTarget(left)
        rSegs == parseHtmlIntoSegmentsTarget(right)
        modifiedDocumentWithHighlights == createModifiedDocumentHighlights(lSegs, rSegs)
    IN  [kind |-> "result",
         modifiedDocumentHighlighted |-> modifiedDocumentWithHighlights,
         summary |-> calculateSummary(modifiedDocumentWithHighlights),
         originalDocument |-> left,
         modifiedDocument |-> right]

\* An uploaded document, as FileUpload hands it to onFileUpload.
Document(name, nodes) ==
    [kind |-> "document", name |-> name,
     originalHtmlContent |-> [kind |-> "doc", nodes |-> nodes]]

AppDocuments ==
    { Document("a.docx", <<Node("p", "A")>>),
      Document("b.docx", <<Node("p", "B")>>),
      Document("c.docx", <<Node("p", "A"), Node("p", "B")>>) }

\* The values the promise of compareHtmlDocuments can settle with for the
\* two loaded documents: its result, or the error of its catch block.
Settlements ==
    { compareHtmlDocuments(leftDocument.originalHtmlContent,
                           rightDocument.originalHtmlContent) }
    \cup { Failure(cause) : cause \in Causes }

\* Mutant: the promise settles in a later task, so UI events can come first.
UiIdleAlways == TRUE

\* compareHtmlDocuments is an async function without an await: its promise
\* is settled when the click handler returns, and the reactions of the
\* .then/.catch/.finally chain run as microtasks, all of them before the
\* browser dispatches the next UI event.
UiIdle == microtasks = <<>>

\* Mutant: the comparison is not reset by an upload.
handleDocumentUploadKeepsComparison(document, position) ==
    /\ IF position = "left"
       THEN leftDocument' = document /\ UNCHANGED rightDocument
       ELSE rightDocument' = document /\ UNCHANGED leftDocument
    /\ viewMode' = "preview"
    /\ lastHandler' = <<"handleDocumentUpload", position>>
    /\ UNCHANGED <<comparison, isComparing, microtasks>>

\* handleDocumentUpload(document, position)
handleDocumentUpload(document, position) ==
    /\ IF position = "left"
       THEN leftDocument' = document /\ UNCHANGED rightDocument
       ELSE rightDocument' = document /\ UNCHANGED leftDocument
    /\ comparison' = Null
    /\ viewMode' = "preview"
    /\ lastHandler' = <<"handleDocumentUpload", position>>
    /\ UNCHANGED <<isComparing, microtasks>>

\* A file is dropped on one of the two FileUpload components.
Upload ==
    /\ UiIdle
    /\ \E document \in AppDocuments, position \in {"left", "right"} :
          handleDocumentUpload(document, position)
    /\ UNCHANGED <<coreVars, previewVars>>

\* const canCompare = leftDocument && rightDocument
canCompare == leftDocument # Null /\ rightDocument # Null

\* Mutant: setIsComparing(true) is missing.
handleCompareDocumentsNoFlag ==
    IF leftDocument # Null /\ rightDocument # Null
    THEN /\ \E settled \in Settlements :
              microtasks' = Append(microtasks, [reaction |-> "then", settled |-> settled])
         /\ lastHandler' = <<"handleCompareDocuments", "started">>
         /\ UNCHANGED <<leftDocument, rightDocument, comparison, viewMode, isComparing>>
    ELSE /\ lastHandler' = <<"handleCompareDocuments", "missing documents">>
         /\ UNCHANGED <<leftDocument, rightDocument, comparison, viewMode,
                        isComparing, microtasks>>

\* handleCompareDocuments: with both documents present it sets isComparing,
\* calls compareHtmlDocuments and chains .then, .catch and .finally on the
\* promise; the first reaction is queued at once, the promise being settled.
handleCompareDocuments ==
    IF leftDocument # Null /\ rightDocument # Null
    THEN /\ isComparing' = TRUE
         /\ \E settled \in Settlements :
              microtasks' = Append(microtasks, [reaction |-> "then", settled |-> settled])
         /\ lastHandler' = <<"handleCompareDocuments", "started">>
         /\ UNCHANGED <<leftDocument, rightDocument, comparison, viewMode>>
    ELSE /\ lastHandler' = <<"handleCompareDocuments", "missing documents">>
         /\ UNCHANGED <<leftDocument, rightDocument, comparison, viewMode,
                        isComparing, microtasks>>

\* The Compare Documents button: disabled={!canCompare || isComparing}
ClickCompare ==
    /\ UiIdle
    /\ canCompare /\ ~isComparing
    /\ handleCompareDocuments
    /\ UNCHANGED <<coreVars, previewVars>>

\* .then((result) => { setComparison(result); setViewMode("comparison") })
\* A rejection passes through to the next reaction.
ThenReaction ==
    /\ microtasks # <<>>
    /\ Head(microtasks).reaction = "then"
    /\ IF Head(microtasks).settled.kind = "result"
       THEN /\ comparison' = Head(microtasks).settled
            /\ viewMode' = "comparison"
            /\ microtasks' = <<[reaction |-> "catch", settled |-> [kind |-> "undefined"]]>>
                             \o Tail(microtasks)
       ELSE /\ microtasks' = <<[reaction |-> "catch", settled |-> Head(microtasks).settled]>>
                             \o Tail(microtasks)
            /\ UNCHANGED <<comparison, viewMode>>
    /\ lastHandler' = <<"then", Head(microtasks).settled.kind>>
    /\ UNCHANGED <<leftDocument, rightDocument, isComparing>>
    /\ UNCHANGED <<coreVars, previewVars>>

\* .catch((error) => { console.error(...); alert(...) }): no state is set.
CatchReaction ==
    /\ microtasks # <<>>
    /\ Head(microtasks).reaction = "catch"
    /\ microtasks' = <<[reaction |-> "finally", settled |-> [kind |-> "undefined"]]>>
                     \o Tail(microtasks)
    /\ lastHandler' = <<"catch", Head(microtasks).settled.kind>>
    /\ UNCHANGED <<leftDocument, rightDocument, comparison, viewMode, isComparing>>
    /\ UNCHANGED <<coreVars, previewVars>>

\* Mutant: the chain ends without resetting isComparing.
FinallyReactionNoReset ==
    /\ microtasks # <<>>
    /\ Head(microtasks).reaction = "finally"
    /\ microtasks' = Tail(microtasks)
    /\ lastHandler' = <<"finally", "undefined">>
    /\ UNCHANGED <<leftDocument, rightDocument, comparison, viewMode, isComparing>>
    /\ UNCHANGED <<coreVars, previewVars>>

\* .finally(() => { setIsComparing(false) })
FinallyReaction ==
    /\ microtasks # <<>>
    /\ Head(microtasks).reaction = "finally"
    /\ isComparing' = FALSE
    /\ microtasks' = Tail(microtasks)
    /\ lastHandler' = <<"finally", "undefined">>
    /\ UNCHANGED <<leftDocument, rightDocument, comparison, viewMode>>
    /\ UNCHANGED <<coreVars, previewVars>>

\* clearDocuments, the Clear All button
clearDocuments ==
    /\ UiIdle
    /\ leftDocument' = Null
    /\ rightDocument' = Null
    /\ comparison' = Null
    /\ lastHandler' = <<"clearDocuments", "all">>
    /\ UNCHANGED <<viewMode, isComparing, microtasks>>
    /\ UNCHANGED <<coreVars, previewVars>>

\* The Preview button, rendered when canCompare.
ClickPreview ==
    /\ UiIdle
    /\ canCompare
    /\ viewMode' = "preview"
    /\ lastHandler' = <<"setViewMode", "preview">>
    /\ UNCHANGED <<leftDocument, rightDocument, comparison, isComparing, microtasks>>
    /\ UNCHANGED <<coreVars, previewVars>>

\* Mutant: the Comparison button is not disabled without a comparison.
ClickComparisonNeverDisabled ==
    /\ UiIdle
    /\ canCompare
    /\ viewMode' = "comparison"
    /\ lastHandler' = <<"setViewMode", "comparison">>
    /\ UNCHANGED <<leftDocument, rightDocument, comparison, isComparing, microtasks>>
    /\ UNCHANGED <<coreVars, previewVars>>

\* The Comparison button, rendered when canCompare, disabled={!comparison}.
ClickComparison ==
    /\ UiIdle
    /\ canCompare
    /\ comparison # Null
    /\ viewMode' = "comparison"
    /\ lastHandler' = <<"setViewMode", "comparison">>
    /\ UNCHANGED <<leftDocument, rightDocument, comparison, isComparing, microtasks>>
    /\ UNCHANGED <<coreVars, previewVars>>

\* const showComparison = comparison && leftDocument && rightDocument
showComparison == comparison # Null /\ leftDocument # Null /\ rightDocument # Null

\* {showComparison && viewMode === "comparison" && ( ...comparison results... )}
ComparisonViewShown == showComparison /\ viewMode = "comparison"

\* {leftDocument && rightDocument && viewMode === "preview" && ( ...previews... )}
PreviewViewShown == leftDocument # Null /\ rightDocument # Null /\ viewMode = "preview"

NextApp ==
    \/ Upload
    \/ ClickCompare
    \/ ThenReaction
    \/ CatchReaction
    \/ FinallyReaction
    \/ clearDocuments
    \/ ClickPreview
    \/ ClickComparison

\* The browser runs every queued promise reaction.
Reactions == ThenReaction \/ CatchReaction \/ FinallyReaction

SpecApp == InitCall /\ [][NextApp]_vars /\ WF_vars(Reactions)

\* ------------------------------------- DocumentPreview: scroll synchronisation
\* The largest scrollTop and scrollHeight - clientHeight a handler reads.
MaxScroll == 2

\* The largest scrollWidth, scrollHeight and inner width adjustScale measures.
MaxExtent == 3

Max(a, b) == IF a >= b THEN a ELSE b

\* Math.round(num / den) for num >= 0, den > 0: halves round up.
Round(num, den) == (2 * num + den) \div (2 * den)

\* The containerId props the call sites of DocumentPreview pass: the
\* highlighted document of the comparison view has one, the previews of the
\* side-by-side view and of the single document view have none.
ContainerIds == {NoContainerId, "highlighted-document-container"}

\* The content prop of an instance: highlightedContent ||
\* document.originalHtmlContent, a markup string that may be empty.
Contents == {"", "<p>A</p>"}

\* <DocumentPreview document={rightDocument} highlightedContent={...}
\*   containerId="highlighted-document-container"
\*   isModifiedWithHighlights={true} /> of the comparison view.
HighlightedPreview(content) ==
    [mounted |-> TRUE, containerId |-> "highlighted-document-container",
     isModifiedWithHighlights |-> TRUE, content |-> content]

\* <DocumentPreview document={...} title={...} /> of the side-by-side view
\* and of the single document view: no containerId, isModifiedWithHighlights
\* takes its default false.
PlainPreview(content) ==
    [mounted |-> TRUE, containerId |-> NoContainerId,
     isModifiedWithHighlights |-> FALSE, content |-> content]

\* What the App renders: the highlighted right document alone (comparison
\* view), both documents side by side, or the one document uploaded so far.
MountedPreviews ==
    {[left |-> NotMounted, right |-> HighlightedPreview(content)] :
        content \in Contents}
    \cup {[left |-> PlainPreview(leftContent), right |-> PlainPreview(rightContent)] :
            leftContent \in Contents, rightContent \in Contents}
    \cup {[left |-> PlainPreview(content), right |-> NotMounted] :
            content \in Contents}
    \cup {[left |-> NotMounted, right |-> PlainPreview(content)] :
            content \in Contents}

\* sourceId.includes('left') ? sourceId.replace('left', 'right')
\*                           : sourceId.replace('right', 'left')
\* An id with neither word is returned as it is.
TargetId(sourceId) ==
    CASE sourceId = "left-container" -> "right-container"
      [] sourceId = "right-container" -> "left-container"
      [] OTHER -> sourceId

\* window.document.getElementById(id): the mounted instance whose container
\* div has that id (id={containerId}), or null.
getElementById(id) ==
    IF \E side \in Sides : previews[side].mounted /\ previews[side].containerId = id
    THEN CHOOSE side \in Sides :
             previews[side].mounted /\ previews[side].containerId = id
    ELSE NoElement

\* Mutant: the early return does not test isModifiedWithHighlights.
SyncEnabledIgnoresHighlights(side) ==
    /\ previews[side].mounted
    /\ previews[side].containerId # NoContainerId

\* The effect returns before addEventListener when
\* !containerRef.current || !containerId || isModifiedWithHighlights.
SyncEnabled(side) ==
    /\ previews[side].mounted
    /\ previews[side].containerId # NoContainerId
    /\ ~previews[side].isModifiedWithHighlights

\* floor(log2(num / den)) of a positive fraction.
FloorLog2(num, den) ==
    CHOOSE e \in -20..20 :
        LET up == 2^(IF e > 0 THEN e ELSE 0)
            down == 2^(IF e < 0 THEN -e ELSE 0)
        IN  den * up <= num * down /\ num * down < 2 * den * up

\* 2^p modulo m
RECURSIVE PowMod2(_, _)
PowMod2(p, m) == IF p = 0 THEN 1 % m ELSE (2 * PowMod2(p - 1, m)) % m

\* Math.round(targetMaxScroll * (scrollTop / sourceMaxScroll)) as JavaScript
\* computes it, in IEEE 754 doubles: the quotient is rounded to 53 bits,
\* then the product. The result is the exact fraction rounded, except where
\* the exact product is k + 1/2, the quotient was rounded down (its
\* remainder r is below half of sourceMaxScroll) and the product of the
\* rounded quotient lies more than half a unit in the last place below
\* k + 1/2: the double product is then below k + 1/2 and Math.round gives k.
\* With 2^p the scale that makes the quotient a 53-bit integer, r is
\* (scrollTop * 2^p) mod sourceMaxScroll.
RoundedProduct(targetMaxScroll, top, sourceMaxScroll) ==
    LET exact == Round(targetMaxScroll * top, sourceMaxScroll)
        twice == 2 * targetMaxScroll * top
        half == twice % sourceMaxScroll = 0 /\ (twice \div sourceMaxScroll) % 2 = 1
    IN  IF ~half THEN exact
        ELSE LET L == FloorLog2(top, sourceMaxScroll)
                 E == FloorLog2(targetMaxScroll * top, sourceMaxScroll)
                 r == (top * PowMod2(52 - L, sourceMaxScroll)) % sourceMaxScroll
                 \* below 1/2 the doubles are twice as dense
                 dense == IF twice = sourceMaxScroll THEN 2 ELSE 1
             IN  IF /\ r # 0
                    /\ 2 * r < sourceMaxScroll
                    /\ 2 * targetMaxScroll * r * dense > sourceMaxScroll * 2^(E - L)
                 THEN exact - 1
                 ELSE exact

\* targetScrollTop = Math.round(targetMaxScroll * scrollRatio), from the
\* scrollTop of the source container and the scrollHeight - clientHeight of
\* the two containers, both raised to at least 1.
TargetScrollTop(top, sourceRange, targetRange) ==
    LET sourceMaxScroll == Max(1, sourceRange)
        targetMaxScroll == Max(1, targetRange)
    IN  RoundedProduct(targetMaxScroll, top, sourceMaxScroll)

\* The first effect of an instance runs after it is mounted: it returns
\* early, or adds handleScroll as the scroll listener of its container.
SyncEffect ==
    /\ \E side \in Sides :
          /\ listeners[side] = "effect pending"
          /\ listeners' = [listeners EXCEPT
                             ![side] = IF SyncEnabled(side) THEN "scroll" ELSE "none"]
    /\ UNCHANGED <<previews, contentStyle, isSyncing, scrollEvents,
                   animationFrames, lastWrite, lastScroll>>
    /\ UNCHANGED <<coreVars, appVars>>

\* handleScroll of the instance `source`, for a scroll event on its own
\* container; cause is "sync" when the event answers an assignment made by
\* a handler, and "input" otherwise. The handler reads scrollTop and
\* scrollHeight - clientHeight of the source container and scrollHeight -
\* clientHeight of the target container from the document, and assigns
\* targetContainer.scrollTop. What the assignment does to the target
\* container is up to the browser (the value is clamped to the scrollable
\* range, the move is animated under scrollBehavior: 'smooth'): a scroll
\* event of the target follows if its position changes.
handleScroll(source, cause) ==
    LET target == getElementById(TargetId(previews[source].containerId))
        dispatched == [scrollEvents EXCEPT ![source] = IF cause = "sync" THEN "none" ELSE @]
    IN  IF ~isSyncing[source] /\ target # NoElement /\ target # source
        THEN \E sourceRange \in 0..MaxScroll, targetRange \in 0..MaxScroll,
                top \in 0..MaxScroll, moved \in BOOLEAN :
                 /\ top <= sourceRange
                 /\ isSyncing' = [isSyncing EXCEPT ![source] = TRUE]
                 /\ lastWrite' = [kind |-> "write", source |-> source,
                                  target |-> target, cause |-> cause,
                                  scrollTop |-> TargetScrollTop(top, sourceRange,
                                                                targetRange)]
                 /\ scrollEvents' = [dispatched EXCEPT
                                       ![target] = IF moved THEN "sync" ELSE @]
                 /\ animationFrames' = animationFrames \cup {source}
        ELSE /\ scrollEvents' = dispatched
             /\ UNCHANGED <<isSyncing, animationFrames, lastWrite>>

\* The browser dispatches a scroll event of a mounted container, after user
\* input or a layout change at any time, or in answer to an assignment to
\* its scrollTop; the listener of its instance runs if the effect added one.
DispatchScroll ==
    /\ \E side \in Sides, cause \in {"input", "sync"} :
          /\ previews[side].mounted
          /\ cause = "sync" => scrollEvents[side] = "sync"
          /\ lastScroll' = [kind |-> "scroll", side |-> side, cause |-> cause,
                            handled |-> listeners[side] = "scroll"]
          /\ IF listeners[side] = "scroll"
             THEN handleScroll(side, cause)
             ELSE /\ scrollEvents' = [scrollEvents EXCEPT
                                         ![side] = IF cause = "sync" THEN "none" ELSE @]
                  /\ UNCHANGED <<isSyncing, animationFrames, lastWrite>>
    /\ UNCHANGED <<previews, listeners, contentStyle>>
    /\ UNCHANGED <<coreVars, appVars>>

\* requestAnimationFrame(() => { isSyncing = false }), the callback a
\* handleScroll that wrote a position has requested.
AnimationFrame(side) ==
    /\ side \in animationFrames
    /\ isSyncing' = [isSyncing EXCEPT ![side] = FALSE]
    /\ animationFrames' = animationFrames \ {side}
    /\ UNCHANGED <<previews, listeners, contentStyle, scrollEvents, lastWrite,
                   lastScroll>>
    /\ UNCHANGED <<coreVars, appVars>>

AnimationFrames == \E side \in Sides : AnimationFrame(side)

\* --------------------------------------------- DocumentPreview: auto-scale
\* container.clientWidth - 32
Padding == 32

RECURSIVE Gcd(_, _)
Gcd(a, b) == IF b = 0 THEN a ELSE Gcd(b, a % b)

\* The number num / den, in lowest terms.
Ratio(num, den) ==
    [num |-> num \div Gcd(num, den), den |-> den \div Gcd(num, den)]

\* The second effect returns before it sets its timer and its ResizeObserver
\* when there is no content.
ScaleAdjusted(side) == previews[side].mounted /\ previews[side].content # ""

\* The inline style of the content div after adjustScale, given what it
\* measures once transform, width, minWidth and maxWidth are reset:
\* content.scrollWidth, container.clientWidth and content.scrollHeight.
\* scale is containerWidth / contentWidth and the width is 100 / scale
\* percent.
AdjustedStyle(style, contentWidth, clientWidth, scrollHeight) ==
    LET containerWidth == clientWidth - Padding
        reset == [style EXCEPT !.transform = [fn |-> "none", by |-> Ratio(0, 1)],
                               !.width = [unit |-> "auto", value |-> Ratio(0, 1)],
                               !.minWidth = "auto",
                               !.maxWidth = "none"]
    IN  IF contentWidth > containerWidth /\ containerWidth > 0
        THEN [reset EXCEPT
                !.transform = [fn |-> "scale",
                               by |-> Ratio(containerWidth, contentWidth)],
                !.transformOrigin = "top left",
                !.width = [unit |-> "%",
                           value |-> Ratio(100 * contentWidth, containerWidth)],
                !.height = [unit |-> "px", value |-> scrollHeight]]
        ELSE [reset EXCEPT
                !.transform = [fn |-> "none", by |-> Ratio(0, 1)],
                !.width = [unit |-> "%", value |-> Ratio(100, 1)],
                !.minWidth = "100%",
                !.height = [unit |-> "auto", value |-> 0]]

\* adjustScale, run by setTimeout(adjustScale, 200) and by the ResizeObserver
\* of the container: it rewrites transform, transformOrigin, width, minWidth,
\* maxWidth and height of the content div. It touches no scroll position and
\* no listener.
adjustScale ==
    /\ \E side \in Sides, contentWidth \in 0..MaxExtent,
          clientWidth \in {0} \cup (Padding..(Padding + MaxExtent)),
          scrollHeight \in 0..MaxExtent :
          /\ ScaleAdjusted(side)
          /\ contentStyle' =
               [contentStyle EXCEPT
                  ![side] = AdjustedStyle(@, contentWidth, clientWidth, scrollHeight)]
    /\ UNCHANGED <<previews, listeners, isSyncing, scrollEvents, animationFrames,
                   lastWrite, lastScroll>>
    /\ UNCHANGED <<coreVars, appVars>>

\* The App has rendered one of its views; no effect has run yet.
InitScroll ==
    /\ mode = "none"
    /\ leftHtml = NotCalled
    /\ rightHtml = NotCalled
    /\ pc = "call"
    /\ leftSegments = <<>>
    /\ rightSegments = <<>>
    /\ leftIndex = 0
    /\ rightIndex = 0
    /\ leftResult = <<>>
    /\ rightResult = <<>>
    /\ highlightedSegments = <<>>
    /\ summary = InitialStats
    /\ detailed = NoReport
    /\ returned = Pending
    /\ AppInit
    /\ previews \in MountedPreviews
    /\ listeners = [side \in Sides |->
                       IF previews[side].mounted THEN "effect pending" ELSE "none"]
    /\ contentStyle = [side \in Sides |-> InitialStyle]
    /\ isSyncing = [side \in Sides |-> FALSE]
    /\ scrollEvents = [side \in Sides |-> "none"]
    /\ animationFrames = {}
    /\ lastWrite = Undefined
    /\ lastScroll = Undefined

\* The steps of the previews the App mounts. No call site passes a
\* containerId together with isModifiedWithHighlights false, so no instance
\* adds a scroll listener and no animation frame callback is ever requested.
NextScroll ==
    \/ SyncEffect
    \/ adjustScale
    \/ DispatchScroll

SpecScroll == InitScroll /\ [][NextScroll]_vars

\* ============================================================== properties
\* The identity the aligner compares by: text and tagName.
Key(segment) == <<segment.tagName, segment.text>>

Keys(segments) == [ i \in 1..Len(segments) |-> Key(segments[i]) ]

Ops(result) == [ i \in 1..Len(result) |-> result[i].operation ]

Texts(result) == [ i \in 1..Len(result) |-> result[i].text ]

Changes(segments) == [ i \in 1..Len(segments) |-> segments[i].changeType ]

IsProperPrefix(s, t) == Len(s) < Len(t) /\ SubSeq(t, 1, Len(s)) = s

Counts(a, d, m) == <<a, d, m>>

SummaryCounts == Counts(summary.additions, summary.deletions, summary.modifications)

\* C1: in mutual mode leftResult and rightResult have the same length after
\* every loop iteration and when the loop has ended.
C1_EqualLengths == Len(leftResult) = Len(rightResult)

C1_Witness ==
    /\ mode = "mutual" /\ pc = "done"
    /\ Len(leftSegments) = 1 /\ Len(rightSegments) = 3
    /\ Len(leftResult) = Len(rightResult)
    /\ \E i \in 1..Len(leftResult) : leftResult[i].operation = "placeholder"

\* C2: comparing a segment sequence against itself, in either mode, labels
\* every output segment unchanged, emits no placeholder and gives a summary
\* of 0 additions, 0 deletions, 0 modifications and 0 changes.
C2_SelfComparison ==
    Keys(leftSegments) = Keys(rightSegments) =>
        /\ \A i \in 1..Len(leftResult) : leftResult[i].operation = "unchanged"
        /\ \A i \in 1..Len(rightResult) : rightResult[i].operation = "unchanged"
        /\ \A i \in 1..Len(highlightedSegments) :
               highlightedSegments[i].changeType = "unchanged"
        /\ pc = "done" =>
             /\ summary = [additions |-> 0, deletions |-> 0,
                           modifications |-> 0, changes |-> 0]
             /\ mode = "mutual" => /\ Keys(leftResult) = Keys(leftSegments)
                                   /\ Keys(rightResult) = Keys(rightSegments)
             /\ mode = "target" => Keys(highlightedSegments) = Keys(rightSegments)

C2_Witness ==
    /\ pc = "done" /\ mode = "mutual"
    /\ Keys(leftSegments) = Keys(rightSegments)
    /\ Len(leftSegments) >= 2
    /\ Key(leftSegments[1]) # Key(leftSegments[2])
    /\ Len(rightResult) = Len(rightSegments)

\* The scenario of C3: left = [p "A", p "B"], right = [p "B"], mutual mode.
C3_Scenario ==
    /\ mode = "mutual" /\ pc = "done"
    /\ Keys(leftSegments) = << <<"p", "A">>, <<"p", "B">> >>
    /\ Keys(rightSegments) = << <<"p", "B">> >>

\* C3 as stated: the left sequence is [removed "A", unchanged "B"], the right
\* sequence is [placeholder, unchanged "B"], and the summary is 0 additions,
\* 1 deletion, 0 modifications.
C3_AsStated ==
    C3_Scenario =>
        /\ Ops(leftResult) = <<"removed", "unchanged">>
        /\ Texts(leftResult) = <<"A", "B">>
        /\ Ops(rightResult) = <<"placeholder", "unchanged">>
        /\ Texts(rightResult) = <<"", "B">>
        /\ SummaryCounts = Counts(0, 1, 0)

\* C3 (amended): the two paragraphs at the cursors have the same tagName, so
\* the first step is a modification: the left sequence is [modified "A",
\* removed "B"], the right sequence is [modified "B", placeholder], and the
\* summary is 0 additions, 1 deletion, 1 modification.
C3_ModifiedThenRemoved ==
    C3_Scenario =>
        /\ Ops(leftResult) = <<"modified", "removed">>
        /\ Texts(leftResult) = <<"A", "B">>
        /\ Ops(rightResult) = <<"modified", "placeholder">>
        /\ Texts(rightResult) = <<"B", "">>
        /\ rightResult[2].originalSegment = leftSegments[2]
        /\ SummaryCounts = Counts(0, 1, 1)

C3_Witness == C3_Scenario /\ Len(leftResult) = 2 /\ summary.changes = 2

\* C4: when the left sequence is a proper prefix of the right sequence, in
\* both modes the first |left| right segments are unchanged and every
\* remaining right segment is added; the summary is |right| - |left|
\* additions, 0 deletions, 0 modifications.
C4_ProperPrefix ==
    (pc = "done" /\ IsProperPrefix(Keys(leftSegments), Keys(rightSegments))) =>
        LET n == Len(leftSegments)
            m == Len(rightSegments)
        IN  /\ mode = "mutual" =>
                 /\ Len(rightResult) = m
                 /\ \A i \in 1..m :
                      /\ Key(rightResult[i]) = Key(rightSegments[i])
                      /\ rightResult[i].operation =
                             IF i <= n THEN "unchanged" ELSE "added"
            /\ mode = "target" =>
                 /\ Len(highlightedSegments) = m
                 /\ \A i \in 1..m :
                      /\ Key(highlightedSegments[i]) = Key(rightSegments[i])
                      /\ highlightedSegments[i].changeType =
                             IF i <= n THEN "unchanged" ELSE "added"
            /\ SummaryCounts = Counts(m - n, 0, 0)

C4_Witness ==
    /\ pc = "done" /\ mode = "mutual"
    /\ IsProperPrefix(Keys(leftSegments), Keys(rightSegments))
    /\ Len(leftSegments) = 1 /\ Len(rightSegments) = 3
    /\ summary.additions = 2

\* C5: a single left segment against a single right segment with the same
\* tagName and a different text gives exactly one output segment per
\* sequence, labelled modified, and the summary 0 additions, 0 deletions,
\* 1 modification, 1 change.
C5_Scenario ==
    /\ pc = "done"
    /\ Len(leftSegments) = 1 /\ Len(rightSegments) = 1
    /\ leftSegments[1].tagName = rightSegments[1].tagName
    /\ leftSegments[1].text # rightSegments[1].text

C5_SingleModified ==
    C5_Scenario =>
        /\ mode = "mutual" => /\ Ops(leftResult) = <<"modified">>
                              /\ Ops(rightResult) = <<"modified">>
                              /\ Texts(leftResult) = <<leftSegments[1].text>>
                              /\ Texts(rightResult) = <<rightSegments[1].text>>
        /\ mode = "target" => /\ Changes(highlightedSegments) = <<"modified">>
                              /\ Texts(highlightedSegments) = <<rightSegments[1].text>>
        /\ summary = [additions |-> 0, deletions |-> 0,
                      modifications |-> 1, changes |-> 1]

C5_Witness ==
    /\ C5_Scenario /\ mode = "target"
    /\ leftSegments[1].tagName = "p"
    /\ Len(highlightedSegments) = 1
    /\ summary.modifications = 1

\* ------------------------------------------------- one loop iteration
Min(S) == CHOOSE x \in S : \A y \in S : x <= y

\* The 0-based offsets, counted from startIndex, of the entries of segments
\* at or after startIndex that have the text and tagName of segment.
LaterOffsets(segment, segments, startIndex) ==
    { j - startIndex : j \in { i \in startIndex..(Len(segments) - 1) :
                                 Key(segments[i + 1]) = Key(segment) } }

EarliestOffset(segment, segments, startIndex) ==
    IF LaterOffsets(segment, segments, startIndex) = {} THEN -1
    ELSE Min(LaterOffsets(segment, segments, startIndex))

\* Both cursors point at a segment and the loop is running.
BothPresent ==
    /\ pc = "align"
    /\ leftIndex < Len(leftSegments)
    /\ rightIndex < Len(rightSegments)

CurLeft == leftSegments[leftIndex + 1]

CurRight == rightSegments[rightIndex + 1]

\* Offset of the current left segment later in the right sequence, and of
\* the current right segment later in the left sequence.
RightMatch == EarliestOffset(CurLeft, rightSegments, rightIndex + 1)

LeftMatch == EarliestOffset(CurRight, leftSegments, leftIndex + 1)

OnePushedEach ==
    /\ Len(leftResult') = Len(leftResult) + 1
    /\ Len(rightResult') = Len(rightResult) + 1
    /\ SubSeq(leftResult', 1, Len(leftResult)) = leftResult
    /\ SubSeq(rightResult', 1, Len(rightResult)) = rightResult

\* The step labels the current right segment added, appends a placeholder for
\* it on the left and advances the right cursor only.
MutualAddedStep ==
    /\ OnePushedEach
    /\ leftIndex' = leftIndex /\ rightIndex' = rightIndex + 1
    /\ Last(rightResult').operation = "added"
    /\ Key(Last(rightResult')) = Key(CurRight)
    /\ Last(leftResult').operation = "placeholder"
    /\ Last(leftResult').originalSegment = CurRight

\* The step labels the current left segment removed, appends a placeholder
\* for it on the right and advances the left cursor only.
MutualRemovedStep ==
    /\ OnePushedEach
    /\ leftIndex' = leftIndex + 1 /\ rightIndex' = rightIndex
    /\ Last(leftResult').operation = "removed"
    /\ Key(Last(leftResult')) = Key(CurLeft)
    /\ Last(rightResult').operation = "placeholder"
    /\ Last(rightResult').originalSegment = CurLeft

MutualModifiedStep ==
    /\ OnePushedEach
    /\ leftIndex' = leftIndex + 1 /\ rightIndex' = rightIndex + 1
    /\ Last(leftResult').operation = "modified"
    /\ Key(Last(leftResult')) = Key(CurLeft)
    /\ Last(rightResult').operation = "modified"
    /\ Key(Last(rightResult')) = Key(CurRight)

TargetStepLabels(change, dl) ==
    /\ highlightedSegments' =
           Append(highlightedSegments, Last(highlightedSegments'))
    /\ Last(highlightedSegments').changeType = change
    /\ Key(Last(highlightedSegments')) = Key(CurRight)
    /\ leftIndex' = leftIndex + dl /\ rightIndex' = rightIndex + 1

\* The cursors as they were before the last loop iteration, read from what
\* that iteration pushed (mutual mode, at least one iteration done).
PreLeftIndex ==
    IF Last(leftResult).operation = "placeholder" THEN leftIndex ELSE leftIndex - 1

PreRightIndex ==
    IF Last(rightResult).operation = "placeholder" THEN rightIndex ELSE rightIndex - 1

PreLeft == leftSegments[PreLeftIndex + 1]

PreRight == rightSegments[PreRightIndex + 1]

AfterMutualPair ==
    /\ mode = "mutual" /\ Len(leftResult) >= 1
    /\ PreLeftIndex < Len(leftSegments)
    /\ PreRightIndex < Len(rightSegments)

\* The scenario of C6: one left and one right segment with the same text and
\* different tagNames.
C6_Scenario ==
    /\ pc = "done"
    /\ Len(leftSegments) = 1 /\ Len(rightSegments) = 1
    /\ leftSegments[1].text = rightSegments[1].text
    /\ leftSegments[1].tagName # rightSegments[1].tagName

C6_MutualReplacement ==
    /\ Ops(leftResult) = <<"removed">>
    /\ Ops(rightResult) = <<"added">>
    /\ Changes(leftResult) = <<"replacement">>
    /\ Changes(rightResult) = <<"replacement">>
    /\ Key(leftResult[1]) = Key(leftSegments[1])
    /\ Key(rightResult[1]) = Key(rightSegments[1])
    /\ leftIndex = 1 /\ rightIndex = 1
    /\ SummaryCounts = Counts(1, 1, 0)

\* C6 as stated: heading "Title" against paragraph "Title" is a replacement
\* (left removed, right added, both cursors advance, nothing unchanged), in
\* the mutual aligner and in the target-only aligner alike.
C6_AsStated ==
    C6_Scenario =>
        /\ mode = "mutual" => C6_MutualReplacement
        /\ mode = "target" => /\ Changes(highlightedSegments) = <<"added">>
                              /\ leftIndex = 1 /\ rightIndex = 1

C6_Witness ==
    /\ C6_Scenario /\ mode = "target"
    /\ leftSegments[1].tagName = "h1" /\ rightSegments[1].tagName = "p"
    /\ Changes(highlightedSegments) = <<"modified">>
    /\ leftIndex = 1 /\ rightIndex = 1

\* Both cursors point at segments with the same tagName and different text.
SameTagOtherText ==
    /\ BothPresent
    /\ CurLeft.tagName = CurRight.tagName
    /\ CurLeft.text # CurRight.text

\* C7 as stated: in both modes a step at a same-tagName, different-text pair
\* labels the pair modified and advances both cursors, whatever the
\* lookahead would find.
C7_AsStated ==
    [][ SameTagOtherText =>
          /\ mode = "mutual" => MutualModifiedStep
          /\ mode = "target" => TargetStepLabels("modified", 1) ]_vars

C7_Witness ==
    /\ mode = "target" /\ pc = "done"
    /\ Len(leftSegments) = 1 /\ Len(rightSegments) = 2
    /\ leftSegments[1].tagName = rightSegments[1].tagName
    /\ leftSegments[1].text # rightSegments[1].text
    /\ Key(rightSegments[2]) = Key(leftSegments[1])
    /\ Changes(highlightedSegments) = <<"added", "unchanged">>

\* Both cursors point at segments with different tagNames (mutual mode).
MutualLookahead ==
    /\ BothPresent /\ mode = "mutual"
    /\ CurLeft.tagName # CurRight.tagName

\* C8 as stated: when both lookaheads succeed the smaller offset decides,
\* and on equal offsets the current right segment is added.
C8_AsStated ==
    [][ (MutualLookahead /\ RightMatch # -1 /\ LeftMatch # -1) =>
          /\ RightMatch < LeftMatch => MutualAddedStep
          /\ LeftMatch < RightMatch => MutualRemovedStep
          /\ LeftMatch = RightMatch => MutualAddedStep ]_vars

\* C8 (amended): when both lookaheads succeed the smaller offset decides, and
\* on equal offsets the current left segment is removed (only the left
\* cursor advances, a placeholder is appended on the right).
C8_TieRemoves ==
    [][ (MutualLookahead /\ RightMatch # -1 /\ LeftMatch # -1) =>
          /\ RightMatch < LeftMatch => MutualAddedStep
          /\ LeftMatch < RightMatch => MutualRemovedStep
          /\ LeftMatch = RightMatch => MutualRemovedStep ]_vars

C8_Witness ==
    /\ AfterMutualPair
    /\ PreLeft.tagName # PreRight.tagName
    /\ EarliestOffset(PreRight, leftSegments, PreLeftIndex + 1) # -1
    /\ EarliestOffset(PreRight, leftSegments, PreLeftIndex + 1) =
           EarliestOffset(PreLeft, rightSegments, PreRightIndex + 1)
    /\ Last(leftResult).operation = "removed"
    /\ Last(rightResult).operation = "placeholder"

\* C9 as stated: only the right segment found later in the left sequence
\* makes the right segment added; only the left segment found later in the
\* right sequence makes the left segment removed.
C9_AsStated ==
    [][ MutualLookahead =>
          /\ (LeftMatch # -1 /\ RightMatch = -1) => MutualAddedStep
          /\ (RightMatch # -1 /\ LeftMatch = -1) => MutualRemovedStep ]_vars

\* C9 (amended): if only the current left segment is found later in the
\* right sequence, the current right segment is added and only the right
\* cursor advances; if only the current right segment is found later in the
\* left sequence, the current left segment is removed and only the left
\* cursor advances.
C9_OneSidedLookahead ==
    [][ MutualLookahead =>
          /\ (RightMatch # -1 /\ LeftMatch = -1) => MutualAddedStep
          /\ (LeftMatch # -1 /\ RightMatch = -1) => MutualRemovedStep ]_vars

C9_Witness ==
    /\ AfterMutualPair
    /\ PreLeft.tagName # PreRight.tagName
    /\ EarliestOffset(PreLeft, rightSegments, PreRightIndex + 1) = 1
    /\ EarliestOffset(PreRight, leftSegments, PreLeftIndex + 1) = -1
    /\ Last(rightResult).operation = "added"
    /\ Last(leftResult).operation = "placeholder"

\* A falsy input is parsed as zero segments, and the run then counts every
\* segment of the other document as an addition (empty left) or, in mutual
\* mode, as a deletion (empty right).
C10_EmptyInputs ==
    /\ (pc # "parse" /\ Falsy(leftHtml)) => leftSegments = <<>>
    /\ (pc # "parse" /\ Falsy(rightHtml)) => rightSegments = <<>>
    /\ (pc = "done" /\ Falsy(leftHtml)) =>
           SummaryCounts = Counts(Len(rightSegments), 0, 0)
    /\ (pc = "done" /\ mode = "mutual" /\ Falsy(rightHtml)) =>
           SummaryCounts = Counts(0, Len(leftSegments), 0)

\* A step taken with one cursor at the end of its sequence.
C10_ExhaustedStep ==
    /\ (pc = "align" /\ leftIndex >= Len(leftSegments)
                     /\ rightIndex < Len(rightSegments)) =>
           /\ mode = "mutual" => MutualAddedStep
           /\ mode = "target" => TargetStepLabels("added", 0)
    /\ (pc = "align" /\ mode = "mutual" /\ rightIndex >= Len(rightSegments)
                     /\ leftIndex < Len(leftSegments)) =>
           MutualRemovedStep
    /\ (pc = "align" /\ mode = "target" /\ rightIndex >= Len(rightSegments)) =>
           UNCHANGED <<highlightedSegments, leftIndex, rightIndex>>

\* C10: once one cursor is at the end, each remaining segment of the other
\* sequence is added (left exhausted) or removed (right exhausted; target-only
\* mode takes no step then), with exactly one placeholder per step on the
\* exhausted side in mutual mode; a falsy document is zero segments, so an
\* empty left gives |R| additions and, in mutual mode, an empty right gives
\* |L| deletions.
C10_Exhausted == [](C10_EmptyInputs) /\ [][C10_ExhaustedStep]_vars

C10_Witness ==
    /\ pc = "done" /\ mode = "mutual"
    /\ leftHtml.kind = "empty"
    /\ Len(rightSegments) = 2
    /\ Ops(leftResult) = <<"placeholder", "placeholder">>
    /\ Ops(rightResult) = <<"added", "added">>
    /\ summary.additions = 2

\* The operation pairs an aligned index of the mutual result may hold.
AlignedPairs ==
    { <<"unchanged", "unchanged">>, <<"modified", "modified">>,
      <<"removed", "placeholder">>, <<"placeholder", "added">>,
      <<"removed", "added">> }

\* The annotated entry is the segment the placeholder refers to.
RefersTo(placeholder, entry) ==
    /\ entry.operation # "placeholder"
    /\ placeholder.originalSegment.id = entry.id
    /\ placeholder.originalSegment.tagName = entry.tagName
    /\ placeholder.originalSegment.text = entry.text
    /\ placeholder.text = ""

\* C11: in mutual mode every aligned index holds one of the five operation
\* pairs (unchanged, unchanged), (modified, modified), (removed, placeholder),
\* (placeholder, added), (removed, added), never two placeholders, and each
\* placeholder's originalSegment is the real segment at the same index on
\* the opposite side.
C11_AlignedPairs ==
    /\ Len(leftResult) = Len(rightResult)
    /\ \A i \in 1..Len(leftResult) :
         /\ <<leftResult[i].operation, rightResult[i].operation>> \in AlignedPairs
         /\ leftResult[i].operation = "placeholder" =>
                RefersTo(leftResult[i], rightResult[i])
         /\ rightResult[i].operation = "placeholder" =>
                RefersTo(rightResult[i], leftResult[i])

C11_Witness ==
    /\ mode = "mutual" /\ pc = "done"
    /\ \E i, j, k \in 1..Len(leftResult) :
         /\ Ops(leftResult)[i] = "placeholder" /\ Ops(rightResult)[i] = "added"
         /\ Ops(leftResult)[j] = "removed" /\ Ops(rightResult)[j] = "placeholder"
         /\ Ops(leftResult)[k] = "removed" /\ Ops(rightResult)[k] = "added"

\* C12: in target-only mode the output is the right sequence itself, segment
\* by segment and in order, with exactly |right| entries at the end, none of
\* them removed or placeholder, and the summary counts 0 deletions.
C12_TargetIsRight ==
    mode = "target" =>
        /\ Len(highlightedSegments) = rightIndex
        /\ rightIndex <= Len(rightSegments)
        /\ \A i \in 1..Len(highlightedSegments) :
             /\ highlightedSegments[i].id = rightSegments[i].id
             /\ highlightedSegments[i].text = rightSegments[i].text
             /\ highlightedSegments[i].tagName = rightSegments[i].tagName
             /\ highlightedSegments[i].changeType \in {"unchanged", "added", "modified"}
        /\ pc = "done" =>
             /\ Len(highlightedSegments) = Len(rightSegments)
             /\ summary.deletions = 0
             /\ returned.modifiedDocumentHighlighted = highlightedSegments

C12_Witness ==
    /\ mode = "target" /\ pc = "done"
    /\ Len(rightSegments) = 3 /\ Len(leftSegments) = 2
    /\ leftIndex < Len(leftSegments)
    /\ Changes(highlightedSegments) = <<"added", "added", "unchanged">>

\* rightResult without its placeholders.
RealRight == SelectSeq(rightResult, LAMBDA e : e.operation # "placeholder")

\* C13: for every pair of input sequences, the classification
\* target-only mode gives to each right segment equals the operation mutual
\* mode gives to the same right segment in rightResult once the placeholders
\* are dropped.
C13_SameClassification ==
    (mode = "both" /\ pc = "done") =>
        /\ Keys(highlightedSegments) = Keys(RealRight)
        /\ Changes(highlightedSegments) = Ops(RealRight)

\* A swapped pair of paragraphs: target-only mode calls the first unchanged,
\* mutual mode calls both modified.
C13_Witness ==
    /\ mode = "both"
    /\ pc = "done"
    /\ Texts(leftSegments) = <<"A", "B">>
    /\ Texts(rightSegments) = <<"B", "A">>
    /\ Changes(highlightedSegments) = <<"unchanged", "modified">>
    /\ Ops(RealRight) = <<"modified", "modified">>

\* The entries of a result carrying operation op, and of a target-only
\* output carrying changeType change.
WithOp(result, op) == SelectSeq(result, LAMBDA e : e.operation = op)

WithChange(segments, change) == SelectSeq(segments, LAMBDA e : e.changeType = change)

\* The index pairs of a mutual result whose two sides are both modified.
ModifiedPairs ==
    { i \in 1..Len(rightResult) :
        /\ i <= Len(leftResult)
        /\ leftResult[i].operation = "modified"
        /\ rightResult[i].operation = "modified" }

\* C14: the summary satisfies changes = additions + deletions +
\* modifications; in mutual mode additions and modifications count the added
\* and the modified entries of rightResult and deletions the removed entries
\* of leftResult, so a modified pair is counted once; in target-only mode the
\* three counts are the numbers of output segments labelled added, removed
\* and modified.
C14_SummaryCounts ==
    /\ summary.changes = summary.additions + summary.deletions + summary.modifications
    /\ (pc = "done" /\ mode = "mutual" /\ returned.kind = "result") =>
          /\ returned.summary = summary
          /\ summary.additions = Len(WithOp(rightResult, "added"))
          /\ summary.modifications = Len(WithOp(rightResult, "modified"))
          /\ summary.deletions = Len(WithOp(leftResult, "removed"))
          /\ summary.modifications = Cardinality(ModifiedPairs)
    /\ (pc = "done" /\ mode = "target" /\ returned.kind = "result") =>
          /\ returned.summary = summary
          /\ summary.additions = Len(WithChange(highlightedSegments, "added"))
          /\ summary.deletions = Len(WithChange(highlightedSegments, "removed"))
          /\ summary.modifications = Len(WithChange(highlightedSegments, "modified"))

\* A finished mutual run with an added, a removed and a modified entry.
C14_Witness ==
    /\ pc = "done"
    /\ mode = "mutual"
    /\ summary.additions = 1
    /\ summary.deletions = 1
    /\ summary.modifications = 1
    /\ summary.changes = 3

\* The index pairs of a mutual result emitted as a replacement: left removed,
\* right added, both with changeType replacement.
ReplacementPairs ==
    { i \in 1..Len(rightResult) :
        /\ i <= Len(leftResult)
        /\ leftResult[i].operation = "removed"
        /\ rightResult[i].operation = "added"
        /\ leftResult[i].changeType = "replacement"
        /\ rightResult[i].changeType = "replacement" }

\* The index pairs of a mutual result that are not an unchanged pair.
ChangedPairs ==
    { i \in 1..Len(rightResult) :
        /\ i <= Len(leftResult)
        /\ ~ (leftResult[i].operation = "unchanged" /\ rightResult[i].operation = "unchanged") }

\* C15 as stated: every changed index pair, a replacement included, adds
\* exactly 1 to the total changes count.
C15_AsStated ==
    (pc = "done" /\ mode = "mutual") =>
        summary.changes = Cardinality(ChangedPairs)

\* C15: in mutual mode a replacement pair adds 1 to additions and 1 to
\* deletions, so 2 to the total changes count; every other changed index
\* pair adds exactly 1.
C15_ReplacementCountsTwice ==
    (pc = "done" /\ mode = "mutual") =>
        /\ summary.changes = Cardinality(ChangedPairs) + Cardinality(ReplacementPairs)
        /\ summary.additions >= Cardinality(ReplacementPairs)
        /\ summary.deletions >= Cardinality(ReplacementPairs)

\* A finished mutual run whose only pair is a replacement, counted as 2.
C15_Witness ==
    /\ pc = "done"
    /\ mode = "mutual"
    /\ Len(rightResult) = 1
    /\ ReplacementPairs = {1}
    /\ summary = [additions |-> 1, deletions |-> 1, modifications |-> 0, changes |-> 2]

\* C16: the detailed report has exactly one line per aligned index pair of
\* the mutual result, and each line's status reflects the pair: REMOVED
\* exactly when the left segment is removed, ADDED exactly when the right
\* segment is added, MODIFIED exactly when the pair is modified, UNCHANGED
\* only when both segments are unchanged; so no line has a status other than
\* UNCHANGED exactly when the summary's changes count is zero.
C16_ReportStatuses ==
    (pc = "done" /\ mode = "mutual") =>
        /\ Len(detailed.lines) = Len(leftResult)
        /\ Len(detailed.lines) = Len(rightResult)
        /\ \A i \in 1..Len(detailed.lines) :
             /\ detailed.lines[i].v1 = i
             /\ detailed.lines[i].v2 = i
             /\ (detailed.lines[i].status = "REMOVED") <=> (leftResult[i].operation = "removed")
             /\ (detailed.lines[i].status = "ADDED") <=> (rightResult[i].operation = "added")
             /\ (detailed.lines[i].status = "MODIFIED") <=>
                   (leftResult[i].operation = "modified" /\ rightResult[i].operation = "modified")
             /\ (detailed.lines[i].status = "UNCHANGED") =>
                   (leftResult[i].operation = "unchanged" /\ rightResult[i].operation = "unchanged")
        /\ ({ i \in 1..Len(detailed.lines) : detailed.lines[i].status # "UNCHANGED" } = {})
              <=> (summary.changes = 0)

\* A replacement pair reported as an UNCHANGED line while the summary counts
\* two changes.
C16_Witness ==
    /\ pc = "done"
    /\ mode = "mutual"
    /\ Keys(leftSegments) = <<Key([tagName |-> "h1", text |-> "A"])>>
    /\ Keys(rightSegments) = <<Key([tagName |-> "p", text |-> "A"])>>
    /\ ReplacementPairs = {1}
    /\ Len(detailed.lines) = 1
    /\ detailed.lines[1].status = "UNCHANGED"
    /\ summary.changes = 2

\* One iteration of either alignment loop: the run stays in the loop.
LoopIteration == pc = "align" /\ pc' = "align" /\ <<leftIndex, rightIndex>>' # <<leftIndex, rightIndex>>

\* The number of iterations made so far: each one pushes one entry.
Iterations == IF mode = "mutual" THEN Len(rightResult) ELSE Len(highlightedSegments)

\* C17: the alignment loop terminates: every iteration advances at least one
\* cursor by exactly one and none by more, no cursor passes the end of its
\* sequence, mutual mode stops with both cursors at the ends after at most
\* |left| + |right| iterations, target-only mode stops with the right cursor
\* at the end after exactly |right| iterations and leftIndex <= |left|.
C17_Terminates ==
    /\ [][ pc = "align" =>
             /\ leftIndex' - leftIndex \in {0, 1}
             /\ rightIndex' - rightIndex \in {0, 1}
             /\ (pc' = "align" =>
                   /\ leftIndex' + rightIndex' > leftIndex + rightIndex
                   /\ Iterations' = Iterations + 1)
             /\ (pc' = "done" => Iterations' = Iterations) ]_vars
    /\ [] (leftIndex <= Len(leftSegments) /\ rightIndex <= Len(rightSegments))
    /\ [] ((pc = "done" /\ mode = "mutual") =>
              /\ leftIndex = Len(leftSegments)
              /\ rightIndex = Len(rightSegments)
              /\ Len(leftResult) = Iterations
              /\ Iterations <= Len(leftSegments) + Len(rightSegments))
    /\ [] ((pc = "done" /\ mode = "target") =>
              /\ rightIndex = Len(rightSegments)
              /\ Iterations = Len(rightSegments)
              /\ leftIndex <= Len(leftSegments))
    /\ <>(pc = "done")

\* A finished mutual run with one-cursor iterations: more iterations than
\* either sequence has segments.
C17_Witness ==
    /\ pc = "done"
    /\ mode = "mutual"
    /\ Len(leftSegments) = 2
    /\ Len(rightSegments) = 2
    /\ Iterations = 3

\* A complete result of a run: every field present and built from finished
\* sequences.
CompleteResult ==
    /\ pc = "done"
    /\ rightIndex = Len(rightSegments)
    /\ IF mode = "mutual"
       THEN /\ DOMAIN returned = {"kind", "leftDiffs", "rightDiffs", "summary", "detailed"}
            /\ leftIndex = Len(leftSegments)
            /\ Len(returned.leftDiffs) = Len(leftResult)
            /\ Len(returned.rightDiffs) = Len(rightResult)
            /\ Len(returned.detailed.lines) = Len(rightResult)
            /\ returned.summary.additions = Len(WithOp(rightResult, "added"))
            /\ returned.summary.deletions = Len(WithOp(leftResult, "removed"))
            /\ returned.summary.modifications = Len(WithOp(rightResult, "modified"))
       ELSE /\ DOMAIN returned = {"kind", "modifiedDocumentHighlighted", "summary",
                                  "originalDocument", "modifiedDocument"}
            /\ Len(returned.modifiedDocumentHighlighted) = Len(rightSegments)
            /\ returned.summary = summary
            /\ returned.originalDocument = leftHtml
            /\ returned.modifiedDocument = rightHtml

\* C19: a run ends in exactly one of two outcomes, a complete result or a
\* single error wrapping the cause's message; after a failure at any point
\* the caller holds only the error, no partial result, and no step follows a
\* settled outcome (nothing is retried).
C19_OneOutcome ==
    /\ [] (returned.kind \in {"pending", "result", "error"})
    /\ [] ((returned.kind = "pending") <=> (pc \notin {"done", "failed"}))
    /\ [] ((returned.kind = "result") => CompleteResult)
    /\ [] ((returned.kind = "error") =>
              /\ pc = "failed"
              /\ DOMAIN returned = {"kind", "message"}
              /\ Len(returned.message) = 2
              /\ returned.message[1] = "Failed to compare documents: "
              /\ returned.message[2] \in Causes)
    /\ [][returned.kind = "pending"]_vars

\* A failure in the middle of the alignment loop: entries were already
\* pushed, and the caller holds only the error.
C19_Witness ==
    /\ pc = "failed"
    /\ returned.kind = "error"
    /\ Len(rightResult) = 1
    /\ Len(rightSegments) = 2
    /\ rightIndex < Len(rightSegments)

\* The segments of one document are in tree order with strictly increasing
\* ids.
InDocumentOrder(html, segments) ==
    /\ ~Falsy(html) => Keys(segments) = Keys(html.nodes)
    /\ \A i \in 1..Len(segments) : \A j \in 1..Len(segments) :
          i < j => segments[i].id < segments[j].id

\* C20: both segmenters return the segments in document (tree) order, with
\* ids that are unique within the parse and strictly increasing along the
\* returned sequence.
C20_DocumentOrder ==
    pc # "parse" =>
        /\ InDocumentOrder(leftHtml, leftSegments)
        /\ InDocumentOrder(rightHtml, rightSegments)

\* The mutual-mode segmenter has moved a paragraph in front of the heading
\* that precedes it in the document.
C20_Witness ==
    /\ pc = "align"
    /\ mode = "mutual"
    /\ Keys(leftHtml.nodes) = <<Key(Node("h1", "A")), Key(Node("p", "A"))>>
    /\ Keys(leftSegments) = <<Key(Node("p", "A")), Key(Node("h1", "A"))>>
    /\ leftSegments[1].id = 1
    /\ leftSegments[2].id = 0

\* The number of entries of a sequence with the given tagName.
CountTag(s, tag) == Cardinality({ i \in 1..Len(s) : s[i].tagName = tag })

\* The nodes a segmenter visits: the two selector lists of mutual mode, the
\* accept list of the tree walker of target-only mode.
Visited(tag) ==
    IF mode = "mutual" THEN tag \in BlockTags \cup MediaTags ELSE tag \in AcceptedTags

ParseTags == { n.tagName : n \in ParseNodes }

\* The nodes of the document, with tagName tag, that satisfy Keep.
NodesKept(tag, Keep(_)) ==
    Cardinality({ i \in 1..Len(leftHtml.nodes) :
                    leftHtml.nodes[i].tagName = tag /\ Keep(leftHtml.nodes[i]) })

\* C21 as stated: in both segmenters a visited node gives exactly one
\* segment unless its trimmed text is empty and its tag is not img, table or
\* tr, and then none.
C21_AsStated ==
    (pc = "align" /\ ~Falsy(leftHtml)) =>
        \A tag \in ParseTags :
            CountTag(leftSegments, tag) =
                NodesKept(tag, LAMBDA n : /\ Visited(n.tagName)
                                          /\ (n.text # "" \/ n.tagName \in {"img", "table", "tr"}))

\* C21: the target-only segmenter emits a visited node as exactly one
\* segment unless its trimmed text is empty and its tag is not img, table or
\* tr; the mutual-mode segmenter emits a block element exactly once when its
\* trimmed text is not empty and emits every img, table and hr exactly once,
\* with a stand-in text; no other node is emitted, and an emitted segment
\* with empty text has tag img, table or tr (target-only mode only).
C21_EmittedNodes ==
    (pc = "align" /\ ~Falsy(leftHtml)) =>
        /\ mode = "target" =>
             /\ \A tag \in ParseTags :
                  CountTag(leftSegments, tag) =
                      NodesKept(tag, LAMBDA n : /\ n.tagName \in AcceptedTags
                                                /\ (n.text # "" \/ n.tagName \in {"img", "table", "tr"}))
             /\ \A i \in 1..Len(leftSegments) :
                  leftSegments[i].text = "" => leftSegments[i].tagName \in {"img", "table", "tr"}
        /\ mode = "mutual" =>
             /\ \A tag \in ParseTags :
                  CountTag(leftSegments, tag) =
                      NodesKept(tag, LAMBDA n : \/ n.tagName \in BlockTags /\ n.text # ""
                                                \/ n.tagName \in {"img", "table", "hr"})
             /\ \A i \in 1..Len(leftSegments) : leftSegments[i].text # ""

\* The mutual-mode segmenter has emitted a horizontal rule, whose text is
\* empty, and skipped an empty paragraph.
C21_Witness ==
    /\ pc = "align"
    /\ mode = "mutual"
    /\ Keys(leftHtml.nodes) = <<Key(Node("p", "")), Key(Node("hr", ""))>>
    /\ Keys(leftSegments) = <<Key(Node("hr", "[hr]"))>>

\* The fields a segment has when the segmenter of the running mode returns it.
SegmentFields ==
    IF mode = "mutual" THEN {"id", "tagName", "text", "isMedia"}
    ELSE {"id", "tagName", "text"}

\* C23: alignment and highlighting never mutate their inputs: from the
\* moment the segment sequences are handed to createMutualDiff or
\* createModifiedDocumentHighlights until the result is returned they keep
\* their length, order and field values, no input segment carries an
\* annotation, and every annotated segment is a record of its own with the
\* annotation fields added.
C23_InputsNotMutated ==
    /\ [][ pc = "align" =>
             /\ leftSegments' = leftSegments
             /\ rightSegments' = rightSegments ]_vars
    /\ [] (\A i \in 1..Len(leftSegments) : DOMAIN leftSegments[i] = SegmentFields)
    /\ [] (\A i \in 1..Len(rightSegments) : DOMAIN rightSegments[i] = SegmentFields)
    /\ [] (\A i \in 1..Len(leftResult) :
              {"id", "tagName", "text", "operation", "changeType"} \subseteq DOMAIN leftResult[i])
    /\ [] (\A i \in 1..Len(rightResult) :
              {"id", "tagName", "text", "operation", "changeType"} \subseteq DOMAIN rightResult[i])
    /\ [] (\A i \in 1..Len(highlightedSegments) :
              DOMAIN highlightedSegments[i] = {"id", "tagName", "text"} \cup {"changeType"})

\* A finished mutual run that annotated segments of both inputs.
C23_Witness ==
    /\ pc = "done"
    /\ mode = "mutual"
    /\ Len(leftSegments) = 2
    /\ Len(rightSegments) = 1
    /\ Ops(leftResult) = <<"modified", "removed">>
    /\ returned.kind = "result"

\* An annotated segment without its annotation: the input segment it was
\* built from.
Unannotated(e) == [id |-> e.id, tagName |-> e.tagName, text |-> e.text, isMedia |-> e.isMedia]

\* A mutual result without its placeholders and annotations.
WithoutPlaceholders(result) ==
    LET real == SelectSeq(result, LAMBDA e : e.operation # "placeholder")
    IN  [ i \in 1..Len(real) |-> Unannotated(real[i]) ]

\* C24: in mutual mode, after every loop iteration leftResult without its
\* placeholders is the part of the left input before leftIndex, in order,
\* and rightResult without its placeholders is the part of the right input
\* before rightIndex; when the loop has ended they are the whole left and
\* right inputs, every input segment appearing exactly once.
C24_InputsPreserved ==
    (mode = "mutual" /\ pc \in {"align", "done"}) =>
        /\ WithoutPlaceholders(leftResult) = SubSeq(leftSegments, 1, leftIndex)
        /\ WithoutPlaceholders(rightResult) = SubSeq(rightSegments, 1, rightIndex)
        /\ Len(WithOp(leftResult, "placeholder")) = Len(leftResult) - leftIndex
        /\ Len(WithOp(rightResult, "placeholder")) = Len(rightResult) - rightIndex
        /\ pc = "done" =>
             /\ WithoutPlaceholders(leftResult) = leftSegments
             /\ WithoutPlaceholders(rightResult) = rightSegments

\* A finished mutual run with a placeholder on each side and a replacement.
C24_Witness ==
    /\ mode = "mutual"
    /\ pc = "done"
    /\ Len(WithOp(leftResult, "placeholder")) = 1
    /\ Len(WithOp(rightResult, "placeholder")) = 1
    /\ ReplacementPairs # {}

\* C25: in mutual mode, for every pair of inputs the summary counts satisfy
\* additions - deletions = |right| - |left|.
C25_AdditionsMinusDeletions ==
    (mode = "mutual" /\ pc = "done") =>
        summary.additions - summary.deletions = Len(rightSegments) - Len(leftSegments)

\* A finished mutual run with both additions and deletions and inputs of
\* different lengths.
C25_Witness ==
    /\ mode = "mutual"
    /\ pc = "done"
    /\ summary.additions = 2
    /\ summary.deletions = 1
    /\ Len(rightSegments) = 3
    /\ Len(leftSegments) = 2

\* Target-only mode: the left cursor at the iteration that pushed entry i.
\* An unchanged or a modified entry advanced the left cursor, an added one
\* did not.
LeftCursorAt(i) ==
    Cardinality({ j \in 1..(i - 1) :
                    highlightedSegments[j].changeType \in {"unchanged", "modified"} })

\* C26: in both modes a segment is classified unchanged only at a step where
\* the left segment at the left cursor and the right segment at the right
\* cursor have equal text and equal tagName.
C26_UnchangedOnlyIfEqual ==
    /\ mode = "mutual" =>
         \A i \in 1..Len(rightResult) :
            (leftResult[i].operation = "unchanged" \/ rightResult[i].operation = "unchanged") =>
                /\ leftResult[i].operation = rightResult[i].operation
                /\ Key(leftResult[i]) = Key(rightResult[i])
    /\ mode = "target" =>
         \A i \in 1..Len(highlightedSegments) :
            highlightedSegments[i].changeType = "unchanged" =>
                /\ LeftCursorAt(i) < Len(leftSegments)
                /\ Key(leftSegments[LeftCursorAt(i) + 1]) = Key(rightSegments[i])

\* Target-only mode has labelled paragraph "B" unchanged at the step that
\* consumed it together with paragraph "A".
C26_Witness ==
    /\ mode = "target"
    /\ pc = "done"
    /\ Texts(leftSegments) = <<"A", "B">>
    /\ Texts(rightSegments) = <<"B", "A">>
    /\ leftSegments[1].tagName = "p" /\ rightSegments[1].tagName = "p"
    /\ highlightedSegments[1].changeType = "unchanged"
    /\ LeftCursorAt(1) = 0

\* C27: whenever the App holds a non-null comparison, both documents are
\* loaded and the comparison is the result of comparing the html of the left
\* and right documents that are loaded now; no result of documents that were
\* replaced or cleared in the meantime is ever held.
C27_ComparisonOfLoadedDocuments ==
    comparison # Null =>
        /\ canCompare
        /\ comparison.originalDocument = leftDocument.originalHtmlContent
        /\ comparison.modifiedDocument = rightDocument.originalHtmlContent
        /\ comparison = compareHtmlDocuments(leftDocument.originalHtmlContent,
                                             rightDocument.originalHtmlContent)

\* A comparison of b.docx with c.docx is held, which takes uploads to both
\* sides, a compare click and the reactions of its promise.
C27_Witness ==
    /\ comparison # Null
    /\ leftDocument # Null /\ leftDocument.name = "b.docx"
    /\ rightDocument # Null /\ rightDocument.name = "c.docx"
    /\ comparison.summary.additions + comparison.summary.deletions
          + comparison.summary.changes > 0
    /\ ~isComparing

\* The chain of reactions of a comparison whose promise was rejected, or the
\* reactions after the .then of a fulfilled one.
NotStoringReaction ==
    /\ ThenReaction \/ CatchReaction \/ FinallyReaction
    /\ ~(Head(microtasks).reaction = "then" /\ Head(microtasks).settled.kind = "result")

\* C28: a compare click that starts a comparison sets isComparing, and
\* isComparing is always eventually false again, whether the comparison
\* succeeds or fails; the .then of a successful comparison stores its result
\* and switches viewMode to "comparison"; every other reaction, the whole
\* chain of a failed comparison included, leaves comparison, viewMode and
\* both documents as they were, and when the chain has ended the Compare
\* button is enabled again.
C28_IsComparingReset ==
    /\ [][lastHandler' = <<"handleCompareDocuments", "started">> => isComparing']_vars
    /\ (isComparing ~> ~isComparing)
    /\ [][lastHandler' = <<"then", "result">> =>
             /\ comparison' = Head(microtasks).settled
             /\ comparison'.kind = "result"
             /\ viewMode' = "comparison"]_vars
    /\ [][NotStoringReaction =>
             UNCHANGED <<comparison, viewMode, leftDocument, rightDocument>>]_vars
    /\ [](lastHandler = <<"finally", "undefined">> => canCompare /\ ~isComparing)

\* A failed comparison is in flight: its rejection reached the .catch, and
\* nothing was stored.
C28_Witness ==
    /\ lastHandler = <<"catch", "error">>
    /\ isComparing
    /\ comparison = Null
    /\ viewMode = "preview"
    /\ canCompare

\* C29: a comparison is started only by a step taken with both documents
\* loaded and isComparing false; while a comparison is in flight isComparing
\* is true; and never more than one comparison is in flight.
C29_OneComparisonInFlight ==
    /\ [][Len(microtasks') > Len(microtasks) => canCompare /\ ~isComparing]_vars
    /\ [](microtasks # <<>> => isComparing /\ canCompare)
    /\ [](Len(microtasks) <= 1)

\* A comparison is in flight.
C29_Witness ==
    /\ Len(microtasks) = 1
    /\ microtasks[1].reaction = "then"
    /\ isComparing
    /\ lastHandler = <<"handleCompareDocuments", "started">>

\* C30: an upload to one side leaves comparison null and viewMode
\* "preview", puts the uploaded document on that side and leaves the other
\* side's document as it was; Clear All leaves both documents and comparison
\* null.
C30_UploadAndClear ==
    [][/\ lastHandler' = <<"handleDocumentUpload", "left">> =>
             /\ comparison' = Null
             /\ viewMode' = "preview"
             /\ leftDocument' \in AppDocuments
             /\ rightDocument' = rightDocument
       /\ lastHandler' = <<"handleDocumentUpload", "right">> =>
             /\ comparison' = Null
             /\ viewMode' = "preview"
             /\ rightDocument' \in AppDocuments
             /\ leftDocument' = leftDocument
       /\ lastHandler' = <<"clearDocuments", "all">> =>
             /\ leftDocument' = Null
             /\ rightDocument' = Null
             /\ comparison' = Null]_vars

\* A document was uploaded to the right while the left one stayed loaded.
C30_Witness ==
    /\ lastHandler = <<"handleDocumentUpload", "right">>
    /\ leftDocument # Null /\ leftDocument.name = "a.docx"
    /\ rightDocument # Null /\ rightDocument.name = "c.docx"
    /\ comparison = Null
    /\ viewMode = "preview"

\* C31: whenever both documents are loaded and viewMode is "comparison",
\* comparison is non-null; so with both documents loaded the page renders
\* exactly one of the comparison view and the preview view.
C31_ViewAlwaysShown ==
    canCompare =>
        /\ viewMode = "comparison" => comparison # Null
        /\ ComparisonViewShown \/ PreviewViewShown
        /\ ~(ComparisonViewShown /\ PreviewViewShown)

\* The user switched back to the comparison view of a held comparison.
C31_Witness ==
    /\ canCompare
    /\ viewMode = "comparison"
    /\ comparison # Null
    /\ lastHandler = <<"setViewMode", "comparison">>

====
